---- MODULE Spec2Model ----
(***************************************************************************)
(* State-machine model of GoogleCachedContentManager                       *)
(* (src/services/ai/cached_content.py): the live handle map, its metadata, *)
(* the metrics, the warming queue and the invalidation rules, together     *)
(* with the backing provider the manager talks to.                         *)
(*                                                                         *)
(* The manager is one module-level instance shared by every caller and     *)
(* takes no lock.  Its async methods (create_*_cache,                      *)
(* cleanup_expired_caches, process_warming_queue) are tasks of an event    *)
(* loop: each is modelled as a process whose steps are cut at its await    *)
(* expressions, where the loop may run another task.  The code between     *)
(* two awaits, and each synchronous handler (invalidation, enqueue), is    *)
(* one action.  The manager is the one built with USE_MOCK_AI unset        *)
(* (use_mock false, line 69): with it set every create_*_cache returns     *)
(* None before touching any state.                                         *)
(***************************************************************************)
EXTENDS Integers, Sequences, FiniteSets, TLC

VARIABLES
    config,               \* self.config (CacheLifecycleConfig)
    active_caches,        \* self.active_caches: cache key -> provider handle
    cache_metadata,       \* self.cache_metadata: cache key -> metadata record
    metrics,              \* self.metrics
    cache_warming_queue,  \* self.cache_warming_queue
    performance_history,  \* self.performance_history: cache key -> list of samples
    invalidation_triggers,\* self.invalidation_triggers (its keys)
    provider,             \* the backing provider: handle -> "valid" | "expired" | "deleted"
    now,                  \* datetime.now() as read by the enqueue and the recorder
    pc,                   \* per caller: position inside create_*_cache
    call,                 \* per caller: arguments and locals of the running create_*_cache
    cleanup,              \* locals of the running cleanup_expired_caches
    warm,                 \* locals of the running process_warming_queue
    last_op               \* the synchronous handler that has just returned, with what it saw

vars == << config, active_caches, cache_metadata, metrics, cache_warming_queue,
           performance_history, invalidation_triggers, provider, now, pc, call, cleanup, warm, last_op >>

None == "None"
NoHandle == 0        \* the None a create call returns; handles count from 1

Max(a, b) == IF a >= b THEN a ELSE b
Min(a, b) == IF a <= b THEN a ELSE b

MapPut(f, k, v) == [x \in (DOMAIN f) \cup {k} |-> IF x = k THEN v ELSE f[x]]
MapDel(f, k) == [x \in (DOMAIN f) \ {k} |-> f[x]]
EmptyMap == << >>

(***************************************************************************)
(* Bounds of the model.                                                    *)
(***************************************************************************)
NumCallers == 2      \* concurrent callers of create_*_cache
MaxHandles == 2      \* handles the provider hands out in one behaviour
MaxRequests == 2     \* create_*_cache calls in one behaviour
MaxEnqueues == 4     \* add_to_warming_queue calls in one behaviour
MaxTriggerKeys == 1  \* distinct keys in the invalidation-trigger log
MaxTaskHandles == 3
MaxTaskRequests == 3
MaxRefreshes == 2
MaxCapEnqueues == 3  \* add_to_warming_queue calls made on a nearly full queue

Callers == 1..NumCallers

(***************************************************************************)
(* CacheContentType and CacheLifecycleConfig.                              *)
(***************************************************************************)
ASSESSMENT_CONTEXT == "assessment_context"
BUSINESS_PROFILE == "business_profile"
FRAMEWORK_CONTEXT == "framework_context"
INDUSTRY_REGULATIONS == "industry_regulations"
SYSTEM_INSTRUCTIONS == "system_instructions"

CacheContentType ==
    { ASSESSMENT_CONTEXT, BUSINESS_PROFILE, FRAMEWORK_CONTEXT,
      INDUSTRY_REGULATIONS, SYSTEM_INSTRUCTIONS }

CacheLifecycleConfig ==
    [ default_ttl_hours        |-> 2,
      max_ttl_hours            |-> 24,
      min_ttl_minutes          |-> 30,
      performance_based_ttl    |-> TRUE,
      cache_warming_enabled    |-> TRUE,
      intelligent_invalidation |-> TRUE ]

(***************************************************************************)
(* Inputs.  A business profile carries the attributes the manager reads.   *)
(* existing_frameworks is kept as a set: the key codec sorts the list, so  *)
(* only its elements matter.                                               *)
(***************************************************************************)
Profile(id, employees, industry) ==
    [ id                           |-> id,
      employee_count               |-> employees,
      industry                     |-> industry,
      existing_frameworks          |-> {},
      has_international_operations |-> FALSE,
      handles_personal_data        |-> FALSE ]

Frameworks == { "ISO27001", "GDPR" }
\* bp1 and bp2 differ in id but share every similarity factor.
Profiles == { Profile("bp1", 12, "tech"), Profile("bp2", 30, "tech") }
ProfileIds == { b.id : b \in Profiles }

(***************************************************************************)
(* Cache key codec.  sha256 over the "|"-joined parts is modelled as an    *)
(* injective function of the parts: the key is the tuple of parts.  An     *)
(* empty or missing secondary key is left out of the parts, so both give   *)
(* the same key.                                                           *)
(***************************************************************************)
GenerateCacheKey(content_type, identifier, secondary_key) ==
    [ content_type |-> content_type,
      identifier   |-> identifier,
      secondary    |-> IF secondary_key \in {None, ""} THEN "" ELSE secondary_key ]

GetEmployeeCountRange(employee_count) ==
    IF employee_count < 10 THEN "micro"
    ELSE IF employee_count < 50 THEN "small"
    ELSE IF employee_count < 250 THEN "medium"
    ELSE IF employee_count < 1000 THEN "large"
    ELSE "enterprise"

GenerateBusinessProfileCacheKey(business_profile) ==
    LET similarity_factors ==
            << business_profile.industry,
               GetEmployeeCountRange(business_profile.employee_count),
               business_profile.existing_frameworks,
               business_profile.has_international_operations,
               business_profile.handles_personal_data >>
    IN GenerateCacheKey(BUSINESS_PROFILE, similarity_factors, None)

(***************************************************************************)
(* Content builders.  The content is a list of strings; the model keeps    *)
(* its number of parts, which stands for len(json.dumps(content)).         *)
(***************************************************************************)
BuildAssessmentCacheContent(framework_id, business_profile) ==
    6 + (IF business_profile.handles_personal_data
            \/ business_profile.has_international_operations THEN 1 ELSE 0)
      + (IF business_profile.existing_frameworks # {} THEN 1 ELSE 0)

BuildBusinessProfileCacheContent(business_profile) == 8

BuildFrameworkCacheContent(framework_id, industry_context) == 7

(***************************************************************************)
(* TTL policy.  int(x * 1.5), int(x * 1.3) and int(x * 0.8) truncate; for  *)
(* the non-negative integers used here they equal the integer quotients    *)
(* below.                                                                  *)
(***************************************************************************)
stable_frameworks == { "ISO27001", "SOC2", "PCI-DSS" }

CalculateAssessmentTTL(cfg, framework_id, business_profile) ==
    LET base0 == cfg.default_ttl_hours
        base1 == IF framework_id \in stable_frameworks
                 THEN (base0 * 15) \div 10 ELSE base0
        employee_count == business_profile.employee_count
        base2 == IF employee_count > 1000 THEN (base1 * 13) \div 10
                 ELSE IF employee_count < 50 THEN (base1 * 8) \div 10
                 ELSE base1
    IN Max(cfg.min_ttl_minutes \div 60, Min(cfg.max_ttl_hours, base2))

CalculateBusinessProfileTTL(cfg, business_profile) ==
    LET base_ttl == cfg.default_ttl_hours
        employee_count == business_profile.employee_count
    IN IF employee_count > 500 THEN Min(cfg.max_ttl_hours, base_ttl * 2)
       ELSE IF employee_count < 25 THEN Max(1, base_ttl \div 2)
       ELSE base_ttl

FrameworkTTLHours == 12

(***************************************************************************)
(* The backing provider.  A handle is the index of its creation.           *)
(* _is_cache_valid asks the handle and reports whether the access raised:  *)
(* the model keeps that answer as the handle's provider-side state.        *)
(***************************************************************************)
IsCacheValid(pv, cached_content) == pv[cached_content] = "valid"

\* The part of the state the create/remove paths work on.
Store == [ ac |-> active_caches, md |-> cache_metadata,
           mt |-> metrics, pv |-> provider ]

MetadataGet(metadata, field, default) ==
    IF field \in DOMAIN metadata THEN metadata[field] ELSE default

(***************************************************************************)
(* _remove_cache / _remove_cache_sync.  delete_ok is the outcome of the    *)
(* provider's delete(): when it raises, the except clause logs and leaves  *)
(* every map as it was.                                                    *)
(***************************************************************************)
\* A removal that forgets the metadata record, for comparison.
RemoveCacheKeepingMetadata(st, cache_key, delete_ok) ==
    IF cache_key \in DOMAIN st.ac /\ delete_ok
    THEN [ st EXCEPT !.ac = MapDel(st.ac, cache_key),
                     !.pv = [st.pv EXCEPT ![st.ac[cache_key]] = "deleted"] ]
    ELSE st

RemoveCache(st, cache_key, delete_ok) ==
    IF cache_key \in DOMAIN st.ac /\ delete_ok
    THEN [ ac |-> MapDel(st.ac, cache_key),
           md |-> MapDel(st.md, cache_key),
           mt |-> IF cache_key \in DOMAIN st.md
                  THEN [st.mt EXCEPT !.total_size_cached_mb =
                            @ - MetadataGet(st.md[cache_key], "size_estimate_mb", 0)]
                  ELSE st.mt,
           pv |-> [st.pv EXCEPT ![st.ac[cache_key]] = "deleted"] ]
    ELSE st

(***************************************************************************)
(* The three create operations share one shape; what differs per content   *)
(* type is the key, the content, the TTL and the metadata.                 *)
(***************************************************************************)
CacheKeyOf(content_type, framework_id, business_profile, industry_context) ==
    CASE content_type = ASSESSMENT_CONTEXT ->
            GenerateCacheKey(ASSESSMENT_CONTEXT, <<framework_id>>, business_profile.id)
      [] content_type = BUSINESS_PROFILE ->
            GenerateBusinessProfileCacheKey(business_profile)
      [] content_type = FRAMEWORK_CONTEXT ->
            GenerateCacheKey(FRAMEWORK_CONTEXT, <<framework_id>>,
                             IF industry_context = None THEN "general"
                             ELSE industry_context)

\* A TTL that applies the adjustment last recorded for the key, for comparison.
TTLHoursOfAdjusted(cfg, c) ==
    LET base == CASE c.content_type = ASSESSMENT_CONTEXT ->
                        CalculateAssessmentTTL(cfg, c.framework_id, c.business_profile)
                  [] c.content_type = BUSINESS_PROFILE ->
                        CalculateBusinessProfileTTL(cfg, c.business_profile)
                  [] c.content_type = FRAMEWORK_CONTEXT -> FrameworkTTLHours
        h == IF c.cache_key \in DOMAIN performance_history
             THEN performance_history[c.cache_key] ELSE << >>
        ttl_adjustment == IF h = << >> THEN 0 ELSE h[Len(h)].ttl_adjustment
    IN (base * (100 + ttl_adjustment)) \div 100

TTLHoursOf(cfg, c) ==
    CASE c.content_type = ASSESSMENT_CONTEXT ->
            CalculateAssessmentTTL(cfg, c.framework_id, c.business_profile)
      [] c.content_type = BUSINESS_PROFILE ->
            CalculateBusinessProfileTTL(cfg, c.business_profile)
      [] c.content_type = FRAMEWORK_CONTEXT -> FrameworkTTLHours

\* created_at (datetime.utcnow()) is written by the code and read by nothing.
MetadataOf(c, ttl_hours) ==
    CASE c.content_type = ASSESSMENT_CONTEXT ->
            [ type |-> ASSESSMENT_CONTEXT,
              ttl_hours |-> ttl_hours,
              framework_id |-> c.framework_id,
              business_profile_id |-> c.business_profile.id,
              size_estimate_mb |->
                  BuildAssessmentCacheContent(c.framework_id, c.business_profile) ]
      [] c.content_type = BUSINESS_PROFILE ->
            [ type |-> BUSINESS_PROFILE,
              ttl_hours |-> ttl_hours,
              business_profile_id |-> c.business_profile.id,
              industry |-> c.business_profile.industry,
              size_estimate_mb |->
                  BuildBusinessProfileCacheContent(c.business_profile) ]
      [] c.content_type = FRAMEWORK_CONTEXT ->
            [ type |-> FRAMEWORK_CONTEXT,
              ttl_hours |-> ttl_hours,
              framework_id |-> c.framework_id,
              industry_context |-> c.industry_context,
              size_estimate_mb |->
                  BuildFrameworkCacheContent(c.framework_id, c.industry_context) ]

\* "Store cache reference and metadata" and the two metric updates after it.
StoreCache(st, c, cached_content, ttl_hours) ==
    LET metadata == MetadataOf(c, ttl_hours)
    IN [ ac |-> MapPut(st.ac, c.cache_key, cached_content),
         md |-> MapPut(st.md, c.cache_key, metadata),
         mt |-> [st.mt EXCEPT !.cache_creates = @ + 1,
                              !.total_size_cached_mb = @ + metadata.size_estimate_mb],
         pv |-> st.pv ]

NoCall == [ content_type |-> None ]
NoOp == [ op |-> None ]

NewCall(content_type, framework_id, business_profile, industry_context) ==
    [ content_type |-> content_type,
      framework_id |-> framework_id,
      business_profile |-> business_profile,
      industry_context |-> industry_context,
      cache_key |-> CacheKeyOf(content_type, framework_id, business_profile,
                               industry_context),
      result |-> NoHandle ]

Requests ==
    metrics.cache_hits + metrics.cache_misses + metrics.cache_creates
        + Cardinality({ p \in Callers : pc[p] \in {"remove", "build"} })

\* A build that calls the provider again until it answers, for comparison.
BuildAndStoreRetrying(st, c, create_ok, limit) ==
    IF Len(st.pv) < limit
    THEN LET st1 == [st EXCEPT !.pv = Append(@, "valid")]
         IN [ st |-> StoreCache(st1, c, Len(st1.pv), TTLHoursOf(config, c)),
              result |-> Len(st1.pv) ]
    ELSE [ st |-> [st EXCEPT !.mt.cache_misses = @ + 1],
           result |-> NoHandle ]

(***************************************************************************)
(* The rest of the try block, from "Build cache content" to the return:    *)
(* build the content, compute the TTL, call the provider's create, store   *)
(* the handle and the metadata, count the create.  There is no await in    *)
(* it, so it runs in one piece.  create_ok is the provider's answer; the   *)
(* provider hands out at most limit handles.  An exception counts a miss   *)
(* and the call returns None.                                              *)
(***************************************************************************)
BuildAndStore(st, c, create_ok, limit) ==
    IF create_ok /\ Len(st.pv) < limit
    THEN LET st1 == [st EXCEPT !.pv = Append(@, "valid")]
         IN [ st |-> StoreCache(st1, c, Len(st1.pv), TTLHoursOf(config, c)),
              result |-> Len(st1.pv) ]
    ELSE [ st |-> [st EXCEPT !.mt.cache_misses = @ + 1],
           result |-> NoHandle ]

(***************************************************************************)
(* create_*_cache as a task of the event loop.  The only await of the      *)
(* method is "await self._remove_cache(cache_key)" on the path where the   *)
(* stored handle is no longer valid; other tasks may run while a caller    *)
(* waits there.  First step: derive the key and look at the live map.  A   *)
(* valid existing handle is a hit and is returned; an invalid one is to    *)
(* be removed; with no entry the method builds, stores and returns.        *)
(***************************************************************************)
CreateCheck(p, content_type, framework_id, business_profile, industry_context) ==
    LET c == NewCall(content_type, framework_id, business_profile, industry_context)
    IN
    /\ pc[p] = "idle"
    /\ Requests < MaxTaskRequests
    /\ IF c.cache_key \in DOMAIN active_caches
       THEN IF IsCacheValid(provider, active_caches[c.cache_key])
            THEN /\ metrics' = [metrics EXCEPT !.cache_hits = @ + 1]
                 /\ pc' = [pc EXCEPT ![p] = "done"]
                 /\ call' = [call EXCEPT ![p] =
                                [c EXCEPT !.result = active_caches[c.cache_key]]]
                 /\ UNCHANGED << active_caches, cache_metadata, provider >>
            ELSE /\ pc' = [pc EXCEPT ![p] = "remove"]
                 /\ call' = [call EXCEPT ![p] = c]
                 /\ UNCHANGED << active_caches, cache_metadata, metrics, provider >>
       ELSE \E create_ok \in BOOLEAN :
              LET r == BuildAndStore(Store, c, create_ok, MaxTaskHandles)
              IN /\ active_caches' = r.st.ac
                 /\ cache_metadata' = r.st.md
                 /\ metrics' = r.st.mt
                 /\ provider' = r.st.pv
                 /\ pc' = [pc EXCEPT ![p] = "done"]
                 /\ call' = [call EXCEPT ![p] = [c EXCEPT !.result = r.result]]
    /\ last_op' = NoOp
    /\ UNCHANGED << config, cache_warming_queue, performance_history,
                    invalidation_triggers, now, cleanup, warm >>

CreateAssessmentCache(p, framework_id, business_profile) ==
    CreateCheck(p, ASSESSMENT_CONTEXT, framework_id, business_profile, None)

CreateBusinessProfileCache(p, business_profile) ==
    CreateCheck(p, BUSINESS_PROFILE, None, business_profile, None)

CreateFrameworkCache(p, framework_id, industry_context) ==
    CreateCheck(p, FRAMEWORK_CONTEXT, framework_id, None, industry_context)

\* "Cache expired, remove it": await self._remove_cache(cache_key).
CreateRemove(p) ==
    /\ pc[p] = "remove"
    /\ \E delete_ok \in BOOLEAN :
          LET st == RemoveCache(Store, call[p].cache_key, delete_ok)
          IN /\ active_caches' = st.ac
             /\ cache_metadata' = st.md
             /\ metrics' = st.mt
             /\ provider' = st.pv
    /\ pc' = [pc EXCEPT ![p] = "build"]
    /\ last_op' = NoOp
    /\ UNCHANGED << config, cache_warming_queue, performance_history, invalidation_triggers, now,
                    call, cleanup, warm >>

\* The caller resumes after the await: build, create, store, return.
CreateBuild(p) ==
    /\ pc[p] = "build"
    /\ \E create_ok \in BOOLEAN :
          LET r == BuildAndStore(Store, call[p], create_ok, MaxTaskHandles)
          IN /\ active_caches' = r.st.ac
             /\ cache_metadata' = r.st.md
             /\ metrics' = r.st.mt
             /\ provider' = r.st.pv
             /\ call' = [call EXCEPT ![p].result = r.result]
    /\ pc' = [pc EXCEPT ![p] = "done"]
    /\ last_op' = NoOp
    /\ UNCHANGED << config, cache_warming_queue, performance_history,
                    invalidation_triggers, now, cleanup, warm >>

\* The caller takes the returned handle (or None) and leaves.
CreateReturn(p) ==
    /\ pc[p] = "done"
    /\ pc' = [pc EXCEPT ![p] = "idle"]
    /\ call' = [call EXCEPT ![p] = NoCall]
    /\ last_op' = NoOp
    /\ UNCHANGED << config, active_caches, cache_metadata, metrics,
                    cache_warming_queue, performance_history, invalidation_triggers, provider, now,
                    cleanup, warm >>

\* The provider's own TTL runs out: the handle stops answering.
ProviderExpire(h) ==
    /\ h \in 1..Len(provider)
    /\ provider[h] = "valid"
    /\ provider' = [provider EXCEPT ![h] = "expired"]
    /\ last_op' = NoOp
    /\ UNCHANGED << config, active_caches, cache_metadata, metrics,
                    cache_warming_queue, performance_history, invalidation_triggers, now, pc, call,
                    cleanup, warm >>

(***************************************************************************)
(* cleanup_expired_caches: collect the keys whose handle is not valid,     *)
(* then remove them one by one, counting one per key.  The removals touch  *)
(* one key each, so the order in which the list is walked is left open.    *)
(* cleanup.scanned and cleanup.removed only observe the run: the keys      *)
(* collected, and the keys whose entry the run really took out.            *)
(***************************************************************************)
NoCleanup == [ pc |-> "idle" ]

CleanupScan ==
    /\ cleanup.pc = "idle"
    /\ LET expired_keys == { k \in DOMAIN active_caches :
                                ~IsCacheValid(provider, active_caches[k]) }
       IN cleanup' = [ pc |-> "remove", expired_keys |-> expired_keys,
                       cleaned_count |-> 0, scanned |-> expired_keys,
                       removed |-> {}, before_ac |-> active_caches ]
    /\ last_op' = NoOp
    /\ UNCHANGED << config, active_caches, cache_metadata, metrics,
                    cache_warming_queue, performance_history, invalidation_triggers, provider, now,
                    pc, call, warm >>

CleanupRemove ==
    /\ cleanup.pc = "remove"
    /\ \E cache_key \in cleanup.expired_keys, delete_ok \in BOOLEAN :
          LET st == RemoveCache(Store, cache_key, delete_ok)
          IN /\ active_caches' = st.ac
             /\ cache_metadata' = st.md
             /\ metrics' = st.mt
             /\ provider' = st.pv
             /\ cleanup' = [cleanup EXCEPT
                    !.expired_keys = @ \ {cache_key},
                    !.cleaned_count = @ + 1,
                    !.removed = IF cache_key \in DOMAIN active_caches /\ delete_ok
                                THEN @ \cup {cache_key} ELSE @]
    /\ last_op' = NoOp
    /\ UNCHANGED << config, cache_warming_queue, performance_history, invalidation_triggers, now,
                    pc, call, warm >>

CleanupReturn ==
    /\ cleanup.pc = "remove"
    /\ cleanup.expired_keys = {}
    /\ cleanup' = [cleanup EXCEPT !.pc = "done"]
    /\ last_op' = NoOp
    /\ UNCHANGED << config, active_caches, cache_metadata, metrics,
                    cache_warming_queue, performance_history, invalidation_triggers, provider, now,
                    pc, call, warm >>

CleanupExit ==
    /\ cleanup.pc = "done"
    /\ cleanup' = NoCleanup
    /\ last_op' = NoOp
    /\ UNCHANGED << config, active_caches, cache_metadata, metrics,
                    cache_warming_queue, performance_history, invalidation_triggers, provider, now,
                    pc, call, warm >>

(***************************************************************************)
(* Invalidation rules: each collects the keys whose metadata matches.      *)
(***************************************************************************)
\* A narrower rule, for comparison: only business-profile entries match.
InvalidateProfileTypeCaches(md, business_profile_id) ==
    { k \in DOMAIN md :
        /\ MetadataGet(md[k], "business_profile_id", None) = business_profile_id
        /\ MetadataGet(md[k], "type", None) = BUSINESS_PROFILE }

InvalidateBusinessProfileCaches(md, business_profile_id) ==
    { k \in DOMAIN md :
        MetadataGet(md[k], "business_profile_id", None) = business_profile_id }

InvalidateFrameworkCaches(md, framework_id) ==
    { k \in DOMAIN md : MetadataGet(md[k], "framework_id", None) = framework_id }

\* A wider rule, for comparison: the business profile is not looked at.
InvalidateAssessmentCachesAnyProfile(md, framework_id, business_profile_id) ==
    { k \in DOMAIN md :
        /\ MetadataGet(md[k], "framework_id", None) = framework_id
        /\ MetadataGet(md[k], "type", None) = ASSESSMENT_CONTEXT }

InvalidateAssessmentCaches(md, framework_id, business_profile_id) ==
    { k \in DOMAIN md :
        /\ MetadataGet(md[k], "framework_id", None) = framework_id
        /\ MetadataGet(md[k], "business_profile_id", None) = business_profile_id
        /\ MetadataGet(md[k], "type", None) = ASSESSMENT_CONTEXT }

InvalidateRegulatoryCaches(md, regulation_id) ==
    { k \in DOMAIN md : regulation_id \in MetadataGet(md[k], "regulations", {}) }

\* A batch that a failing delete aborts, for comparison: with any failure
\* nothing is removed.
InvalidateCacheKeysAborting(st, cache_keys, failed) ==
    IF failed # {} THEN st
    ELSE [ ac |-> [k \in (DOMAIN st.ac) \ cache_keys |-> st.ac[k]],
           md |-> [k \in (DOMAIN st.md) \ (cache_keys \cap DOMAIN st.ac) |-> st.md[k]],
           mt |-> st.mt,
           pv |-> [h \in DOMAIN st.pv |->
                      IF \E k \in cache_keys \cap DOMAIN st.ac : st.ac[k] = h
                      THEN "deleted" ELSE st.pv[h]] ]

(***************************************************************************)
(* _invalidate_cache_keys: per key still in the live map, delete at the    *)
(* provider and drop the handle and the metadata; a delete that raises is  *)
(* logged and the loop goes on.  failed holds the keys whose delete        *)
(* raises.  The size metric is not touched here.                           *)
(***************************************************************************)
InvalidateCacheKeys(st, cache_keys, failed) ==
    LET gone == { k \in cache_keys \cap DOMAIN st.ac : k \notin failed }
    IN [ ac |-> [k \in (DOMAIN st.ac) \ gone |-> st.ac[k]],
         md |-> [k \in (DOMAIN st.md) \ gone |-> st.md[k]],
         mt |-> st.mt,
         pv |-> [h \in DOMAIN st.pv |->
                    IF \E k \in gone : st.ac[k] = h THEN "deleted" ELSE st.pv[h]] ]

KeysToInvalidate(md, trigger_type, context) ==
    CASE trigger_type = "business_profile_update" ->
            InvalidateBusinessProfileCaches(md, context.business_profile_id)
      [] trigger_type = "framework_update" ->
            InvalidateFrameworkCaches(md, context.framework_id)
      [] trigger_type = "assessment_completion" ->
            InvalidateAssessmentCaches(md, context.framework_id,
                                       context.business_profile_id)
      [] trigger_type = "regulatory_change" ->
            InvalidateRegulatoryCaches(md, context.regulation_id)
      [] OTHER -> {}

\* The contexts callers pass with each trigger type.
TriggerContexts(trigger_type) ==
    CASE trigger_type = "business_profile_update" ->
            { [business_profile_id |-> b] : b \in ProfileIds }
      [] trigger_type = "framework_update" ->
            { [framework_id |-> f] : f \in Frameworks }
      [] trigger_type = "assessment_completion" ->
            { [framework_id |-> f, business_profile_id |-> b] :
                  f \in Frameworks, b \in ProfileIds }
      [] trigger_type = "regulatory_change" ->
            { [regulation_id |-> r] : r \in Frameworks }

TriggerTypes == { "business_profile_update", "framework_update",
                  "assessment_completion", "regulatory_change" }

\* A handler that does not look at the intelligent_invalidation flag, for
\* comparison.
TriggerEffectIgnoringFlag(cfg, st, log, trigger_type, context, failed) ==
    [ st |-> InvalidateCacheKeys(st, KeysToInvalidate(st.md, trigger_type, context),
                                 failed),
      log |-> log \cup { << trigger_type,
                            MetadataGet(context, "business_profile_id", "global") >> } ]

\* What trigger_intelligent_invalidation does to the maps and to the trigger
\* log (the keys of self.invalidation_triggers): nothing when the flag is
\* off; otherwise the trigger is logged and the matching keys are deleted.
TriggerEffect(cfg, st, log, trigger_type, context, failed) ==
    IF ~cfg.intelligent_invalidation
    THEN [ st |-> st, log |-> log ]
    ELSE [ st |-> InvalidateCacheKeys(st,
                      KeysToInvalidate(st.md, trigger_type, context), failed),
           log |-> log \cup { << trigger_type,
                                 MetadataGet(context, "business_profile_id",
                                             "global") >> } ]

\* failed: the keys whose provider delete raises (none is called with the
\* flag off).  last_op keeps what the handler was given and the state it
\* started from.
TriggerIntelligentInvalidation(trigger_type, context) ==
    /\ \E failed \in SUBSET (IF config.intelligent_invalidation
                             THEN KeysToInvalidate(cache_metadata, trigger_type, context)
                                      \cap DOMAIN active_caches
                             ELSE {}) :
          LET r == TriggerEffect(config, Store, invalidation_triggers,
                                 trigger_type, context, failed)
          IN /\ active_caches' = r.st.ac
             /\ cache_metadata' = r.st.md
             /\ metrics' = r.st.mt
             /\ provider' = r.st.pv
             /\ invalidation_triggers' = r.log
             /\ last_op' = [ op |-> "trigger", trigger_type |-> trigger_type,
                             context |-> context, failed |-> failed,
                             before_ac |-> active_caches,
                             before_md |-> cache_metadata,
                             before_mt |-> metrics,
                             before_pv |-> provider,
                             before_log |-> invalidation_triggers ]
    /\ UNCHANGED << config, cache_warming_queue, performance_history, now,
                    pc, call, cleanup, warm >>

(***************************************************************************)
(* refresh_cache.  The method has no await and runs in one piece.  For a   *)
(* key with a metadata record the three content-type branches only log;    *)
(* the refresh counter goes up and True is returned.                       *)
(***************************************************************************)
\* A refresh that counts unknown keys too, for comparison.
RefreshOutcomeCountingUnknown(md, mt, cache_key) ==
    [ mt |-> [mt EXCEPT !.cache_refreshes = @ + 1],
      ret |-> cache_key \in DOMAIN md ]

RefreshOutcome(md, mt, cache_key) ==
    IF cache_key \notin DOMAIN md
    THEN [ mt |-> mt, ret |-> FALSE ]
    ELSE [ mt |-> [mt EXCEPT !.cache_refreshes = @ + 1], ret |-> TRUE ]

\* last_op keeps the key, the value returned and the state the call started from.
RefreshCache(cache_key) ==
    /\ metrics.cache_refreshes < MaxRefreshes
    /\ LET r == RefreshOutcome(cache_metadata, metrics, cache_key)
       IN /\ metrics' = r.mt
          /\ last_op' = [ op |-> "refresh", cache_key |-> cache_key, ret |-> r.ret,
                          before_ac |-> active_caches,
                          before_md |-> cache_metadata,
                          before_mt |-> metrics,
                          before_pv |-> provider,
                          before_queue |-> cache_warming_queue ]
    /\ UNCHANGED << config, active_caches, cache_metadata, cache_warming_queue,
                    performance_history, invalidation_triggers, provider, now,
                    pc, call, cleanup, warm >>

(***************************************************************************)
(* get_cached_content: a synchronous lookup.  A valid entry is a hit; an   *)
(* invalid one is removed on the spot (_remove_cache_sync) and, like an    *)
(* absent one, counted as a miss.  None is returned on a miss.             *)
(***************************************************************************)
GetCachedContent(content_type, identifier, secondary_key) ==
    LET cache_key == GenerateCacheKey(content_type, << identifier >>, secondary_key)
    IN
    /\ Requests < MaxRequests
    /\ IF cache_key \in DOMAIN active_caches
          /\ IsCacheValid(provider, active_caches[cache_key])
       THEN /\ metrics' = [metrics EXCEPT !.cache_hits = @ + 1]
            /\ last_op' = [ op |-> "get", cache_key |-> cache_key,
                            result |-> active_caches[cache_key] ]
            /\ UNCHANGED << active_caches, cache_metadata, provider >>
       ELSE \E delete_ok \in (IF cache_key \in DOMAIN active_caches
                              THEN BOOLEAN ELSE {TRUE}) :
              LET st == RemoveCache(Store, cache_key, delete_ok)
              IN /\ active_caches' = st.ac
                 /\ cache_metadata' = st.md
                 /\ metrics' = [st.mt EXCEPT !.cache_misses = @ + 1]
                 /\ provider' = st.pv
                 /\ last_op' = [ op |-> "get", cache_key |-> cache_key,
                                 result |-> NoHandle ]
    /\ UNCHANGED << config, cache_warming_queue, performance_history,
                    invalidation_triggers, now, pc, call, cleanup, warm >>

(***************************************************************************)
(* Performance recorder.  Response times are milliseconds; the adjustment  *)
(* is kept in percent (ttl_adjustment_factor = 0.2 is 20).                 *)
(***************************************************************************)
FastResponseThresholdMs == 200
SlowResponseThresholdMs == 2000
TTLAdjustmentFactorPct == 20
PerformanceHistoryCap == 50
RecentWindow == 10
MinSamples == 3
MaxSamples == 5      \* bound: record_cache_performance calls in one behaviour

Last(seq, n) == SubSeq(seq, Max(1, Len(seq) - n + 1), Len(seq))

RECURSIVE SumResponseTimes(_)
SumResponseTimes(records) ==
    IF records = << >> THEN 0
    ELSE Head(records).response_time_ms + SumResponseTimes(Tail(records))

HistoryOf(ph, cache_key) == IF cache_key \in DOMAIN ph THEN ph[cache_key] ELSE << >>

\* An adjustment over the whole history instead of the last 10, for comparison.
CalculateTTLAdjustmentWholeHistory(cfg, ph, cache_key) ==
    LET records == HistoryOf(ph, cache_key)
        n == Len(records)
        total == SumResponseTimes(records)
    IN IF ~cfg.performance_based_ttl THEN 0
       ELSE IF n < MinSamples THEN 0
       ELSE IF total < FastResponseThresholdMs * n THEN TTLAdjustmentFactorPct
       ELSE IF total > SlowResponseThresholdMs * n THEN -TTLAdjustmentFactorPct
       ELSE 0

\* avg < fast  <=>  sum < fast * n, and likewise for slow.
CalculateTTLAdjustment(cfg, ph, cache_key) ==
    LET recent_records == Last(HistoryOf(ph, cache_key), RecentWindow)
        n == Len(recent_records)
        total == SumResponseTimes(recent_records)
    IN IF ~cfg.performance_based_ttl THEN 0
       ELSE IF n < MinSamples THEN 0
       ELSE IF total < FastResponseThresholdMs * n THEN TTLAdjustmentFactorPct
       ELSE IF total > SlowResponseThresholdMs * n THEN -TTLAdjustmentFactorPct
       ELSE 0

\* A history that drops its newest records on overflow, for comparison.
KeepOldest(records) ==
    IF Len(records) > PerformanceHistoryCap
    THEN SubSeq(records, 1, PerformanceHistoryCap) ELSE records

\* "Keep only last 50 records per cache key".
KeepRecent(records) ==
    IF Len(records) > PerformanceHistoryCap
    THEN Last(records, PerformanceHistoryCap) ELSE records

\* timestamp is the reading of the clock at the call; the clock advances
\* with every call, so the timestamp also tells the samples apart.
\* last_op keeps the arguments and the state the call started from.
RecordCachePerformance(cache_key, response_time_ms, hit, clock_limit) ==
    /\ now < clock_limit
    /\ IF ~config.performance_based_ttl
       THEN UNCHANGED << performance_history, now >>
       ELSE LET performance_record == [ timestamp |-> now,
                                        response_time_ms |-> response_time_ms,
                                        hit |-> hit, ttl_adjustment |-> 0 ]
                kept == KeepRecent(Append(HistoryOf(performance_history, cache_key),
                                          performance_record))
                ph1 == MapPut(performance_history, cache_key, kept)
                ttl_adjustment == CalculateTTLAdjustment(config, ph1, cache_key)
            IN /\ performance_history' =
                      MapPut(performance_history, cache_key,
                             [kept EXCEPT ![Len(kept)].ttl_adjustment = ttl_adjustment])
               /\ now' = now + 1
    /\ last_op' = [ op |-> "record", cache_key |-> cache_key,
                    response_time_ms |-> response_time_ms, hit |-> hit,
                    timestamp |-> now, before_ph |-> performance_history,
                    before_ac |-> active_caches,
                    before_md |-> cache_metadata,
                    before_mt |-> metrics,
                    before_pv |-> provider,
                    before_queue |-> cache_warming_queue ]
    /\ UNCHANGED << config, active_caches, cache_metadata, metrics,
                    cache_warming_queue, invalidation_triggers, provider,
                    pc, call, cleanup, warm >>

(***************************************************************************)
(* Warming queue.  queued_at is the reading of the clock at the enqueue;   *)
(* the clock advances with every enqueue, so queued_at also tells the      *)
(* entries apart.                                                          *)
(***************************************************************************)
WarmingQueueCap == 100
HighPriority == 2
MaxAttempts == 3

\* An unstable insert, for comparison: index of the first entry with a
\* greater or equal priority, or Len + 1.
RECURSIVE InsertPositionTiesFirst(_, _, _)
InsertPositionTiesFirst(queue, priority, i) ==
    IF i > Len(queue) THEN i
    ELSE IF priority <= queue[i].priority THEN i
    ELSE InsertPositionTiesFirst(queue, priority, i + 1)

\* Index of the first entry with a strictly greater priority, or Len + 1.
RECURSIVE InsertPosition(_, _, _)
InsertPosition(queue, priority, i) ==
    IF i > Len(queue) THEN i
    ELSE IF priority < queue[i].priority THEN i
    ELSE InsertPosition(queue, priority, i + 1)

InsertByPriority(queue, warming_entry) ==
    LET i == InsertPosition(queue, warming_entry.priority, 1)
    IN SubSeq(queue, 1, i - 1) \o << warming_entry >> \o SubSeq(queue, i, Len(queue))

\* A limit that keeps the tail, for comparison.
LimitQueueSizeKeepTail(queue) ==
    IF Len(queue) > WarmingQueueCap
    THEN SubSeq(queue, Len(queue) - WarmingQueueCap + 1, Len(queue)) ELSE queue

LimitQueueSize(queue) ==
    IF Len(queue) > WarmingQueueCap THEN SubSeq(queue, 1, WarmingQueueCap) ELSE queue

AddToWarmingQueue(content_type, context, priority, clock_limit) ==
    /\ now < clock_limit
    /\ IF ~config.cache_warming_enabled
       THEN UNCHANGED << cache_warming_queue, now >>
       ELSE LET warming_entry == [ content_type |-> content_type,
                                   context |-> context,
                                   priority |-> priority,
                                   queued_at |-> now,
                                   attempts |-> 0 ]
            IN /\ cache_warming_queue' =
                      LimitQueueSize(InsertByPriority(cache_warming_queue, warming_entry))
               /\ now' = now + 1
    /\ last_op' = [ op |-> "enqueue", priority |-> priority, queued_at |-> now,
                    before_queue |-> cache_warming_queue ]
    /\ UNCHANGED << config, active_caches, cache_metadata, metrics,
                    performance_history, invalidation_triggers, provider,
                    pc, call, cleanup, warm >>

(***************************************************************************)
(* A create_*_cache call run to completion inside another handler (the     *)
(* warming path awaits it).  delete_ok and create_ok are the provider's    *)
(* answers to delete() and create(); the provider hands out at most        *)
(* MaxHandles handles.  Gives the new store and the value returned.        *)
(***************************************************************************)
\* A lookup that never finds a usable entry, for comparison.
NeverHit(st, c) == FALSE

\* The entry under the key is there and its handle answers: the call is a hit.
IsHit(st, c) ==
    c.cache_key \in DOMAIN st.ac /\ IsCacheValid(st.pv, st.ac[c.cache_key])

CreateCache(st, c, delete_ok, create_ok) ==
    IF IsHit(st, c)
    THEN [ st |-> [st EXCEPT !.mt.cache_hits = @ + 1],
           result |-> st.ac[c.cache_key] ]
    ELSE BuildAndStore(RemoveCache(st, c.cache_key, delete_ok), c, create_ok, MaxHandles)

\* create_*_cache called and run to its return with no other handler in
\* between.  The provider answers only the calls that are made: delete()
\* for a stale entry, create() when there is no hit.  last_op keeps the
\* call, the provider's answers, the value returned and the state the call
\* started from.
CreateCacheCall(content_type, framework_id, business_profile, industry_context) ==
    LET c == NewCall(content_type, framework_id, business_profile, industry_context)
    IN
    /\ Requests < MaxRequests
    /\ \E delete_ok \in (IF c.cache_key \in DOMAIN active_caches /\ ~IsHit(Store, c)
                         THEN BOOLEAN ELSE {TRUE}),
          create_ok \in (IF IsHit(Store, c) THEN {TRUE} ELSE BOOLEAN) :
          LET r == CreateCache(Store, c, delete_ok, create_ok)
          IN /\ active_caches' = r.st.ac
             /\ cache_metadata' = r.st.md
             /\ metrics' = r.st.mt
             /\ provider' = r.st.pv
             /\ last_op' = [ op |-> "create", call |-> c, result |-> r.result,
                             delete_ok |-> delete_ok, create_ok |-> create_ok,
                             before_ac |-> active_caches,
                             before_md |-> cache_metadata,
                             before_mt |-> metrics,
                             before_pv |-> provider ]
    /\ UNCHANGED << config, cache_warming_queue, performance_history,
                    invalidation_triggers, now, pc, call, cleanup, warm >>

(***************************************************************************)
(* _should_warm_cache.                                                     *)
(***************************************************************************)
ShouldWarmCache(entry, ac, ph) ==
    LET cache_key == GenerateCacheKey(
                         entry.content_type,
                         << MetadataGet(entry.context, "framework_id", "") >>,
                         MetadataGet(entry.context, "business_profile_id", ""))
        recent_history == HistoryOf(ph, cache_key)
        recent == Last(recent_history, RecentWindow)
        recent_hits == Cardinality({ i \in 1..Len(recent) : recent[i].hit })
    IN IF cache_key \in DOMAIN ac THEN FALSE
       ELSE IF entry.priority <= HighPriority THEN TRUE
       ELSE IF Len(recent_history) >= MinSamples
            THEN recent_hits * 10 > 3 * Min(Len(recent_history), RecentWindow)
            ELSE FALSE

(***************************************************************************)
(* _warm_cache_entry.  A context that lacks a key the branch indexes       *)
(* raises KeyError; content types without a branch do nothing.             *)
(***************************************************************************)
WarmRaises(entry) ==
    LET has(k) == k \in DOMAIN entry.context
    IN CASE entry.content_type = ASSESSMENT_CONTEXT ->
                ~(has("framework_id") /\ has("business_profile"))
         [] entry.content_type = BUSINESS_PROFILE -> ~has("business_profile")
         [] entry.content_type = FRAMEWORK_CONTEXT -> ~has("framework_id")
         [] OTHER -> FALSE

WarmCall(entry) ==
    CASE entry.content_type = ASSESSMENT_CONTEXT ->
            NewCall(ASSESSMENT_CONTEXT, entry.context.framework_id,
                    entry.context.business_profile, None)
      [] entry.content_type = BUSINESS_PROFILE ->
            NewCall(BUSINESS_PROFILE, None, entry.context.business_profile, None)
      [] entry.content_type = FRAMEWORK_CONTEXT ->
            NewCall(FRAMEWORK_CONTEXT, entry.context.framework_id, None,
                    MetadataGet(entry.context, "industry_context", "General"))

WarmCacheEntry(st, entry, delete_ok, create_ok) ==
    IF entry.content_type \in { ASSESSMENT_CONTEXT, BUSINESS_PROFILE, FRAMEWORK_CONTEXT }
    THEN CreateCache(st, WarmCall(entry), delete_ok, create_ok).st
    ELSE st

(***************************************************************************)
(* process_warming_queue: walk a copy of the first max_items entries,      *)
(* then pop the collected indices from the queue, highest first.  The      *)
(* method awaits _warm_cache_entry for each entry it warms, so a step of   *)
(* the walk is one entry.  warm.built is a history count of the entries    *)
(* for which the walk stored a new handle; after each step last_op holds   *)
(* the entry looked at, whether a create call was made for it, whether     *)
(* the step raised, and the state the step started from.                   *)
(***************************************************************************)
NoWarm == [ pc |-> "idle" ]

RemoveAt(queue, i) ==   \* list.pop(i), i counted from 0
    IF i + 1 \in 1..Len(queue)
    THEN SubSeq(queue, 1, i) \o SubSeq(queue, i + 2, Len(queue))
    ELSE queue

RECURSIVE PopReversed(_, _)
PopReversed(queue, items_to_remove) ==
    IF items_to_remove = << >> THEN queue
    ELSE PopReversed(RemoveAt(queue, items_to_remove[Len(items_to_remove)]),
                     SubSeq(items_to_remove, 1, Len(items_to_remove) - 1))

\* entry["attempts"] += 1 acts on the entry object, wherever the queue holds it.
BumpAttempts(queue, entry) ==
    [ i \in 1..Len(queue) |->
        IF queue[i].queued_at = entry.queued_at
        THEN [queue[i] EXCEPT !.attempts = @ + 1] ELSE queue[i] ]

ProcessWarmingQueue(max_items) ==
    /\ warm.pc = "idle"
    /\ IF ~config.cache_warming_enabled \/ cache_warming_queue = << >>
       THEN warm' = [ pc |-> "done", ret |-> 0 ]
       ELSE warm' = [ pc |-> "loop",
                      batch |-> SubSeq(cache_warming_queue, 1,
                                       Min(max_items, Len(cache_warming_queue))),
                      i |-> 0, processed |-> 0, items_to_remove |-> << >>,
                      built |-> 0, ret |-> None ]
    /\ last_op' = NoOp
    /\ UNCHANGED << config, active_caches, cache_metadata, metrics,
                    cache_warming_queue, performance_history,
                    invalidation_triggers, provider, now, pc, call, cleanup >>

WarmItem ==
    /\ warm.pc = "loop"
    /\ warm.i < Len(warm.batch)
    /\ LET entry == warm.batch[warm.i + 1]
       IN IF ~ShouldWarmCache(entry, active_caches, performance_history)
          THEN /\ warm' = [warm EXCEPT !.i = @ + 1,
                                       !.items_to_remove = Append(@, warm.i)]
               /\ last_op' = [ op |-> "warm", entry |-> entry,
                               called |-> FALSE, raised |-> FALSE,
                               before_ac |-> active_caches,
                               before_pv |-> provider,
                               before_queue |-> cache_warming_queue ]
               /\ UNCHANGED << active_caches, cache_metadata, metrics, provider,
                               cache_warming_queue >>
          ELSE IF WarmRaises(entry)
          THEN /\ cache_warming_queue' = BumpAttempts(cache_warming_queue, entry)
               /\ warm' = [warm EXCEPT
                      !.i = @ + 1,
                      !.batch = [@ EXCEPT ![warm.i + 1].attempts = @ + 1],
                      !.items_to_remove =
                          IF entry.attempts + 1 >= MaxAttempts
                          THEN Append(@, warm.i) ELSE @]
               /\ last_op' = [ op |-> "warm", entry |-> entry,
                               called |-> FALSE, raised |-> TRUE,
                               before_ac |-> active_caches,
                               before_pv |-> provider,
                               before_queue |-> cache_warming_queue ]
               /\ UNCHANGED << active_caches, cache_metadata, metrics, provider >>
          ELSE \E delete_ok \in BOOLEAN, create_ok \in BOOLEAN :
                 LET st == WarmCacheEntry(Store, entry, delete_ok, create_ok)
                 IN /\ active_caches' = st.ac
                    /\ cache_metadata' = st.md
                    /\ metrics' = st.mt
                    /\ provider' = st.pv
                    /\ warm' = [warm EXCEPT
                           !.i = @ + 1,
                           !.processed = @ + 1,
                           !.built = IF Len(st.pv) > Len(provider) THEN @ + 1 ELSE @,
                           !.items_to_remove = Append(@, warm.i)]
                    /\ last_op' = [ op |-> "warm", entry |-> entry,
                                    called |-> entry.content_type \in
                                        { ASSESSMENT_CONTEXT, BUSINESS_PROFILE,
                                          FRAMEWORK_CONTEXT },
                                    raised |-> FALSE,
                                    before_ac |-> active_caches,
                                    before_pv |-> provider,
                                    before_queue |-> cache_warming_queue ]
                    /\ UNCHANGED cache_warming_queue
    /\ UNCHANGED << config, performance_history, invalidation_triggers, now,
                    pc, call, cleanup >>

WarmRemove ==
    /\ warm.pc = "loop"
    /\ warm.i = Len(warm.batch)
    /\ cache_warming_queue' = PopReversed(cache_warming_queue, warm.items_to_remove)
    /\ warm' = [warm EXCEPT !.pc = "done", !.ret = warm.processed]
    /\ last_op' = [ op |-> "warm_remove", before_queue |-> cache_warming_queue ]
    /\ UNCHANGED << config, active_caches, cache_metadata, metrics,
                    performance_history, invalidation_triggers, provider, now,
                    pc, call, cleanup >>

WarmExit ==
    /\ warm.pc = "done"
    /\ warm' = NoWarm
    /\ last_op' = NoOp
    /\ UNCHANGED << config, active_caches, cache_metadata, metrics,
                    cache_warming_queue, performance_history,
                    invalidation_triggers, provider, now, pc, call, cleanup >>

(***************************************************************************)
(* The manager after __init__, and the specifications.                     *)
(***************************************************************************)
InitManager ==
    /\ active_caches = EmptyMap
    /\ cache_metadata = EmptyMap
    /\ metrics = [ cache_hits |-> 0, cache_misses |-> 0, cache_creates |-> 0,
                   cache_refreshes |-> 0, total_size_cached_mb |-> 0 ]
    /\ performance_history = EmptyMap
    /\ cache_warming_queue = << >>
    /\ invalidation_triggers = {}
    /\ provider = << >>
    /\ now = 0
    /\ pc = [p \in Callers |-> "idle"]
    /\ call = [p \in Callers |-> NoCall]
    /\ cleanup = NoCleanup
    /\ warm = NoWarm
    /\ last_op = NoOp

Init ==
    /\ config = CacheLifecycleConfig
    /\ InitManager

IndustryContexts == { None }

\* No handler is running: the next call starts with the manager at rest.
Quiet ==
    /\ \A p \in Callers : pc[p] = "idle"
    /\ cleanup.pc = "idle"
    /\ warm.pc = "idle"

\* What the concurrent callers ask for: the three content types, two
\* profiles that share a business-profile key, one framework.
TaskFrameworks == { "GDPR" }

CreateCalls(p) ==
    \/ \E f \in TaskFrameworks, b \in Profiles : CreateAssessmentCache(p, f, b)
    \/ \E b \in Profiles : CreateBusinessProfileCache(p, b)
    \/ \E f \in TaskFrameworks, ic \in IndustryContexts : CreateFrameworkCache(p, f, ic)

CreateSteps(p) ==
    \/ CreateRemove(p)
    \/ CreateBuild(p)
    \/ CreateReturn(p)

CleanupSteps ==
    \/ CleanupRemove
    \/ CleanupReturn
    \/ CleanupExit

Triggers ==
    \E t \in TriggerTypes : \E c \in TriggerContexts(t) :
        /\ \/ Cardinality(invalidation_triggers) < MaxTriggerKeys
           \/ << t, MetadataGet(c, "business_profile_id", "global") >>
                  \in invalidation_triggers
        /\ TriggerIntelligentInvalidation(t, c)

(***************************************************************************)
(* Spec: the callers' create calls and the periodic cleanup as tasks of    *)
(* one event loop, which may run another task wherever a task awaits.      *)
(***************************************************************************)
Next ==
    \/ \E p \in Callers : CreateCalls(p)
    \/ \E p \in Callers : CreateSteps(p)
    \/ \E h \in 1..MaxTaskHandles : ProviderExpire(h)
    \/ CleanupScan
    \/ CleanupSteps

Spec == Init /\ [][Next]_vars

(***************************************************************************)
(* SpecSeq: one handler at a time, each run to its return before the next  *)
(* is called: create calls and the periodic cleanup, with the provider     *)
(* expiring handles in between.                                            *)
(***************************************************************************)
CreateCacheCalls ==
    \/ \E f \in Frameworks, b \in Profiles :
          CreateCacheCall(ASSESSMENT_CONTEXT, f, b, None)
    \/ \E b \in Profiles : CreateCacheCall(BUSINESS_PROFILE, None, b, None)
    \/ \E f \in Frameworks, ic \in IndustryContexts :
          CreateCacheCall(FRAMEWORK_CONTEXT, f, None, ic)

NextSeq ==
    \/ Quiet /\ CreateCacheCalls
    \/ \E h \in 1..MaxHandles : ProviderExpire(h)
    \/ Quiet /\ CleanupScan
    \/ CleanupSteps

SpecSeq == Init /\ [][NextSeq]_vars

(***************************************************************************)
(* SpecInv: create calls and invalidation triggers, one handler at a time. *)
(* The invalidation rules read the metadata only and delete whatever       *)
(* handle the map holds, so the provider's expiry is left out here.        *)
(***************************************************************************)
NextInv ==
    \/ CreateCacheCalls
    \/ Triggers

SpecInv == Init /\ [][NextInv]_vars

(***************************************************************************)
(* SpecInvOff: the same handlers on a manager constructed with             *)
(* intelligent_invalidation switched off.                                  *)
(***************************************************************************)
InitInvOff ==
    /\ config = [CacheLifecycleConfig EXCEPT !.intelligent_invalidation = FALSE]
    /\ InitManager

SpecInvOff == InitInvOff /\ [][NextInv]_vars

(***************************************************************************)
(* SpecRefresh: create calls and refresh calls, one handler at a time,     *)
(* with the provider expiring handles in between.  Refresh is asked for    *)
(* the keys the create calls derive, known to the manager or not.          *)
(***************************************************************************)
RefreshKeys ==
    { CacheKeyOf(ASSESSMENT_CONTEXT, f, b, None) : f \in Frameworks, b \in Profiles }
        \cup { CacheKeyOf(BUSINESS_PROFILE, None, b, None) : b \in Profiles }
        \cup { CacheKeyOf(FRAMEWORK_CONTEXT, f, None, ic) :
                   f \in Frameworks, ic \in IndustryContexts }

NextRefresh ==
    \/ CreateCacheCalls
    \/ \E h \in 1..MaxHandles : ProviderExpire(h)
    \/ \E k \in RefreshKeys : RefreshCache(k)

SpecRefresh == Init /\ [][NextRefresh]_vars

(***************************************************************************)
(* SpecTTL: managers constructed with different lifecycle configurations   *)
(* (minimum not above maximum), asked to create entries for organisations  *)
(* on every side of the size thresholds.                                   *)
(***************************************************************************)
TTLConfigs ==
    { [CacheLifecycleConfig EXCEPT !.default_ttl_hours = d,
                                   !.max_ttl_hours = mx,
                                   !.min_ttl_minutes = mn] :
          d \in {1, 2, 4}, mx \in {3, 24}, mn \in {30, 60, 120} }

TTLProfiles ==
    { Profile("e10", 10, "tech"), Profile("e30", 30, "tech"),
      Profile("e100", 100, "tech"), Profile("e600", 600, "tech"),
      Profile("e1500", 1500, "tech") }

InitTTL ==
    /\ config \in { c \in TTLConfigs : c.min_ttl_minutes <= 60 * c.max_ttl_hours }
    /\ InitManager

NextTTL ==
    \/ \E f \in Frameworks, b \in TTLProfiles :
          CreateCacheCall(ASSESSMENT_CONTEXT, f, b, None)
    \/ \E b \in TTLProfiles : CreateCacheCall(BUSINESS_PROFILE, None, b, None)
    \/ \E f \in Frameworks, ic \in IndustryContexts :
          CreateCacheCall(FRAMEWORK_CONTEXT, f, None, ic)

SpecTTL == InitTTL /\ [][NextTTL]_vars

(***************************************************************************)
(* SpecWarm: the warming queue.  Callers enqueue while the background      *)
(* task walks the queue; an enqueue may fall between two steps of the      *)
(* walk.                                                                   *)
(***************************************************************************)
Priorities == { 1, 3, 5 }

\* Queue entries as callers build them: one that can be built, one whose
\* context lacks the profile, one of a content type without a build path.
WarmRequests ==
    { [ content_type |-> ASSESSMENT_CONTEXT,
        context |-> [ business_profile |-> Profile("bp1", 12, "tech"),
                      framework_id |-> "GDPR",
                      business_profile_id |-> "bp1" ] ],
      [ content_type |-> BUSINESS_PROFILE,
        context |-> [ business_profile_id |-> "bp1" ] ] }

BatchSizes == { 1, 5 }

Enqueues(clock_limit) ==
    \E w \in WarmRequests, priority \in Priorities :
        AddToWarmingQueue(w.content_type, w.context, priority, clock_limit)

WarmSteps ==
    \/ WarmItem
    \/ WarmRemove
    \/ WarmExit

NextWarm ==
    \/ Enqueues(MaxEnqueues)
    \/ \E max_items \in BatchSizes : ProcessWarmingQueue(max_items)
    \/ WarmSteps

SpecWarm == Init /\ [][NextWarm]_vars

(***************************************************************************)
(* SpecCap: the warming queue at its size limit.  The manager starts with  *)
(* a queue that earlier enqueues have filled to one below the limit or to  *)
(* the limit (priorities 1, 3, 5 in arrival order, which is the order the  *)
(* stable insert leaves them in), and callers go on enqueuing.             *)
(***************************************************************************)
FilledQueue(n) ==
    [ i \in 1..n |->
        [ content_type |-> BUSINESS_PROFILE,
          context |-> [ business_profile_id |-> "bp1" ],
          priority |-> IF 3 * i <= n THEN 1 ELSE IF 3 * i <= 2 * n THEN 3 ELSE 5,
          queued_at |-> i - 1,
          attempts |-> 0 ] ]

InitCap ==
    /\ config = CacheLifecycleConfig
    /\ active_caches = EmptyMap
    /\ cache_metadata = EmptyMap
    /\ metrics = [ cache_hits |-> 0, cache_misses |-> 0, cache_creates |-> 0,
                   cache_refreshes |-> 0, total_size_cached_mb |-> 0 ]
    /\ performance_history = EmptyMap
    /\ cache_warming_queue \in { FilledQueue(WarmingQueueCap - 1),
                                 FilledQueue(WarmingQueueCap) }
    /\ invalidation_triggers = {}
    /\ provider = << >>
    /\ now = Len(cache_warming_queue)
    /\ pc = [p \in Callers |-> "idle"]
    /\ call = [p \in Callers |-> NoCall]
    /\ cleanup = NoCleanup
    /\ warm = NoWarm
    /\ last_op = NoOp

NextCap == Enqueues(WarmingQueueCap + MaxCapEnqueues)

SpecCap == InitCap /\ [][NextCap]_vars

(***************************************************************************)
(* SpecPerf: the performance recorder.  The manager starts with no         *)
(* history, or with one key whose history earlier calls have filled with   *)
(* fast samples to one below the limit, and callers go on recording.       *)
(***************************************************************************)
PerfKeys ==
    { GenerateCacheKey(FRAMEWORK_CONTEXT, << "GDPR" >>, "general"),
      GenerateCacheKey(FRAMEWORK_CONTEXT, << "ISO27001" >>, "general") }

\* Response times on both sides of the two thresholds and on the slow one.
ResponseTimesMs == { 100, 300, 2000, 3000 }

FilledHistory(n) ==
    [ i \in 1..n |->
        [ timestamp |-> i - 1, response_time_ms |-> 100, hit |-> TRUE,
          ttl_adjustment |-> IF i < MinSamples THEN 0 ELSE TTLAdjustmentFactorPct ] ]

InitPerf ==
    /\ config = CacheLifecycleConfig
    /\ active_caches = EmptyMap
    /\ cache_metadata = EmptyMap
    /\ metrics = [ cache_hits |-> 0, cache_misses |-> 0, cache_creates |-> 0,
                   cache_refreshes |-> 0, total_size_cached_mb |-> 0 ]
    /\ \E n \in { 0, PerformanceHistoryCap - 1 } :
          /\ performance_history =
                 IF n = 0 THEN EmptyMap
                 ELSE MapPut(EmptyMap,
                             GenerateCacheKey(FRAMEWORK_CONTEXT, << "GDPR" >>, "general"),
                             FilledHistory(n))
          /\ now = n
    /\ cache_warming_queue = << >>
    /\ invalidation_triggers = {}
    /\ provider = << >>
    /\ pc = [p \in Callers |-> "idle"]
    /\ call = [p \in Callers |-> NoCall]
    /\ cleanup = NoCleanup
    /\ warm = NoWarm
    /\ last_op = NoOp

\* hit is left at its default.
Records(clock_limit) ==
    \E k \in PerfKeys, t \in ResponseTimesMs :
        RecordCachePerformance(k, t, TRUE, clock_limit)

\* MaxSamples calls on top of the history the manager started with.
PerfClockLimit ==
    IF now < PerformanceHistoryCap - 1 THEN MaxSamples
    ELSE PerformanceHistoryCap - 1 + MaxSamples

NextPerf == Records(PerfClockLimit)

SpecPerf == InitPerf /\ [][NextPerf]_vars

(***************************************************************************)
(* SpecBatch: process_warming_queue run again and again on a queue that    *)
(* earlier enqueues left behind, with no enqueue in between.  The queue    *)
(* holds up to MaxBatchQueue entries in priority order: entries that can   *)
(* be built (two of them for profiles that share a similarity key), one    *)
(* whose context lacks the profile, one of a content type without a build  *)
(* path.  The callers have recorded no performance yet, or three hits      *)
(* under the key of the business-profile entry, or three hits under the    *)
(* key of the assessment entry.                                            *)
(***************************************************************************)
MaxBatchQueue == 2

BatchPriorities == { 1, 5 }

BatchRequests ==
    { [ content_type |-> ASSESSMENT_CONTEXT,
        context |-> [ business_profile |-> Profile("bp1", 12, "tech"),
                      framework_id |-> "GDPR",
                      business_profile_id |-> "bp1" ] ],
      [ content_type |-> BUSINESS_PROFILE,
        context |-> [ business_profile |-> Profile("bp1", 12, "tech"),
                      business_profile_id |-> "bp1" ] ],
      [ content_type |-> BUSINESS_PROFILE,
        context |-> [ business_profile |-> Profile("bp2", 30, "tech"),
                      business_profile_id |-> "bp2" ] ],
      [ content_type |-> BUSINESS_PROFILE,
        context |-> [ business_profile_id |-> "bp1" ] ],
      [ content_type |-> FRAMEWORK_CONTEXT,
        context |-> [ framework_id |-> "GDPR" ] ],
      [ content_type |-> INDUSTRY_REGULATIONS,
        context |-> [ framework_id |-> "GDPR" ] ] }

BatchHistories ==
    { EmptyMap,
      MapPut(EmptyMap, GenerateBusinessProfileCacheKey(Profile("bp1", 12, "tech")),
             FilledHistory(MinSamples)),
      MapPut(EmptyMap, GenerateCacheKey(ASSESSMENT_CONTEXT, << "GDPR" >>, "bp1"),
             FilledHistory(MinSamples)) }

InitBatch ==
    /\ config = CacheLifecycleConfig
    /\ active_caches = EmptyMap
    /\ cache_metadata = EmptyMap
    /\ metrics = [ cache_hits |-> 0, cache_misses |-> 0, cache_creates |-> 0,
                   cache_refreshes |-> 0, total_size_cached_mb |-> 0 ]
    /\ performance_history \in BatchHistories
    /\ \E n \in 0..MaxBatchQueue :
          \E w \in [1..n -> BatchRequests], priority \in [1..n -> BatchPriorities] :
             /\ \A i \in 1..(n - 1) : priority[i] <= priority[i + 1]
             /\ cache_warming_queue =
                    [ i \in 1..n |->
                        [ content_type |-> w[i].content_type,
                          context |-> w[i].context,
                          priority |-> priority[i],
                          queued_at |-> i - 1,
                          attempts |-> 0 ] ]
             /\ now = n
    /\ invalidation_triggers = {}
    /\ provider = << >>
    /\ pc = [p \in Callers |-> "idle"]
    /\ call = [p \in Callers |-> NoCall]
    /\ cleanup = NoCleanup
    /\ warm = NoWarm
    /\ last_op = NoOp

NextBatch ==
    \/ \E max_items \in BatchSizes : ProcessWarmingQueue(max_items)
    \/ WarmSteps

SpecBatch == InitBatch /\ [][NextBatch]_vars

\* The background task keeps running: a batch that can take a step takes it.
SpecBatchFair == SpecBatch /\ WF_vars(NextBatch)

(***************************************************************************)
(* SpecAdvisory: callers record the performance of two keys, fast and slow *)
(* responses, up to MaxAdvisorySamples samples, while create calls go on.  *)
(***************************************************************************)
MaxAdvisorySamples == 3

AdvisoryKeys ==
    { GenerateCacheKey(ASSESSMENT_CONTEXT, << "GDPR" >>, "bp1"),
      GenerateCacheKey(FRAMEWORK_CONTEXT, << "GDPR" >>, "general") }

AdvisoryResponseTimesMs == { 100, 3000 }

NextAdvisory ==
    \/ CreateCacheCalls
    \/ \E k \in AdvisoryKeys, t \in AdvisoryResponseTimesMs :
          RecordCachePerformance(k, t, TRUE, MaxAdvisorySamples)

SpecAdvisory == Init /\ [][NextAdvisory]_vars

(***************************************************************************)
(* SpecOps: every operation of the manager, one at a time, each run to its *)
(* return before the next is called: create, get, refresh, cleanup,        *)
(* invalidation, enqueue and warming, with the provider expiring handles   *)
(* and failing deletes and creates in between.                             *)
(***************************************************************************)
MaxOps == 3

\* Calls made so far that left a mark: requests counted, refreshes counted,
\* triggers logged, entries enqueued.
OpsCount ==
    Requests + metrics.cache_refreshes + Cardinality(invalidation_triggers) + now

\* No handler is running and the callers have calls left.
Ready == Quiet /\ OpsCount < MaxOps

\* The inputs: one framework, two profiles of one similarity key.
OpsCreates ==
    \/ \E b \in Profiles : CreateCacheCall(ASSESSMENT_CONTEXT, "GDPR", b, None)
    \/ \E b \in Profiles : CreateCacheCall(BUSINESS_PROFILE, None, b, None)
    \/ CreateCacheCall(FRAMEWORK_CONTEXT, "GDPR", None, None)

OpsLookups ==
    \/ GetCachedContent(ASSESSMENT_CONTEXT, "GDPR", "bp1")
    \/ GetCachedContent(FRAMEWORK_CONTEXT, "GDPR", "general")

OpsRefreshes ==
    \/ RefreshCache(GenerateCacheKey(ASSESSMENT_CONTEXT, << "GDPR" >>, "bp1"))
    \/ RefreshCache(GenerateCacheKey(FRAMEWORK_CONTEXT, << "GDPR" >>, "general"))

OpsTriggers ==
    \E t \in TriggerTypes :
        \E c \in { x \in TriggerContexts(t) :
                     /\ MetadataGet(x, "business_profile_id", "bp1") = "bp1"
                     /\ MetadataGet(x, "framework_id", "GDPR") = "GDPR"
                     /\ MetadataGet(x, "regulation_id", "GDPR") = "GDPR" } :
            /\ \/ Cardinality(invalidation_triggers) < MaxTriggerKeys
               \/ << t, MetadataGet(c, "business_profile_id", "global") >>
                      \in invalidation_triggers
            /\ TriggerIntelligentInvalidation(t, c)

OpsEnqueues ==
    \E w \in WarmRequests :
        AddToWarmingQueue(w.content_type, w.context, 1, MaxOps)

NextOps ==
    \/ Ready /\ OpsCreates
    \/ Ready /\ OpsLookups
    \/ \E h \in 1..MaxHandles : ProviderExpire(h)
    \/ Quiet /\ CleanupScan
    \/ CleanupSteps
    \/ Ready /\ OpsTriggers
    \/ Ready /\ OpsRefreshes
    \/ Ready /\ OpsEnqueues
    \/ Quiet /\ ProcessWarmingQueue(5)
    \/ WarmSteps

SpecOps == Init /\ [][NextOps]_vars

(***************************************************************************)
(*                              Properties                                 *)
(***************************************************************************)

Handles == 1..Len(provider)
InLiveMap(h) == \E k \in DOMAIN active_caches : active_caches[k] = h

\* C1 -- Two create calls for the same content type and identifiers, made
\* while the entry has not expired, invoke the provider's create at most
\* once and return the same handle: two callers that have both been handed
\* a handle that is still valid at the provider hold the same handle.
C1_SingleFlight ==
    \A p \in Callers, q \in Callers :
        ( /\ p # q
          /\ pc[p] = "done" /\ pc[q] = "done"
          /\ call[p].cache_key = call[q].cache_key
          /\ call[p].result # NoHandle /\ call[q].result # NoHandle
          /\ provider[call[p].result] = "valid"
          /\ provider[call[q].result] = "valid" )
        => call[p].result = call[q].result

\* C2 -- Every handle the manager has created and the provider has not
\* deleted is the handle stored in the live map under its key: no handle
\* is leaked.
C2_NoLeakedHandle ==
    \A h \in Handles : provider[h] # "deleted" => InLiveMap(h)

\* A stronger leak than C2 has to exclude: a handle still valid at the
\* provider that no key of the live map holds.
NoValidHandleLeaked ==
    \A h \in Handles : provider[h] = "valid" => InLiveMap(h)

\* C3 -- For every configuration with minTTLMinutes/60 <= maxTTLHours and
\* every input, the TTL passed to the provider's create and recorded with
\* the entry lies within [minTTLMinutes/60, maxTTLHours] (compared in
\* minutes), for all three content types.
C3_TTLWithinBounds ==
    \A k \in DOMAIN cache_metadata :
        /\ cache_metadata[k].ttl_hours * 60 >= config.min_ttl_minutes
        /\ cache_metadata[k].ttl_hours <= config.max_ttl_hours

\* The reference computation of the assessment TTL, in minutes.
ReferenceAssessmentTTLMinutes(cfg, framework_id, employee_count) ==
    LET b0 == cfg.default_ttl_hours
        b1 == IF framework_id \in {"ISO27001", "SOC2", "PCI-DSS"}
              THEN (3 * b0) \div 2 ELSE b0
        b2 == IF employee_count > 1000 THEN (13 * b1) \div 10
              ELSE IF employee_count < 50 THEN (4 * b1) \div 5
              ELSE b1
    IN Max(cfg.min_ttl_minutes, 60 * Min(cfg.max_ttl_hours, b2))

\* C4 -- The TTL of a newly created assessment entry equals the reference
\* computation max(minTTLMinutes/60, min(maxTTLHours, base)), base being
\* the default scaled by floor(x1.5) for a stable framework and then by
\* floor(x1.3) above 1000 employees or floor(x0.8) below 50; with the
\* defaults ISO27001/1500 gives 3 hours and GDPR/10 gives 1 hour.
C4_AssessmentTTLIsReference ==
    ( /\ last_op.op = "create"
      /\ last_op.call.content_type = ASSESSMENT_CONTEXT
      /\ last_op.result # NoHandle )
    => LET c == last_op.call
           ttl_hours == cache_metadata[c.cache_key].ttl_hours
       IN /\ ttl_hours * 60 =
                 ReferenceAssessmentTTLMinutes(config, c.framework_id,
                                               c.business_profile.employee_count)
          /\ ( /\ config = CacheLifecycleConfig
               /\ c.framework_id = "ISO27001"
               /\ c.business_profile.employee_count = 1500 ) => ttl_hours = 3
          /\ ( /\ config = CacheLifecycleConfig
               /\ c.framework_id = "GDPR"
               /\ c.business_profile.employee_count = 10 ) => ttl_hours = 1


(***************************************************************************)
(* Invalidation triggers.  After trigger_intelligent_invalidation, last_op *)
(* holds the trigger, its context, the keys whose provider delete raised,  *)
(* and the maps and provider states the handler started from.              *)
(***************************************************************************)
TriggerDone(trigger_type) ==
    /\ last_op.op = "trigger"
    /\ last_op.trigger_type = trigger_type
    /\ config.intelligent_invalidation

\* Entries other than gone are where they were: handle, metadata, provider state.
Untouched(gone) ==
    \A k \in (DOMAIN last_op.before_ac) \ gone :
        /\ k \in DOMAIN active_caches
        /\ k \in DOMAIN cache_metadata
        /\ active_caches[k] = last_op.before_ac[k]
        /\ cache_metadata[k] = last_op.before_md[k]
        /\ provider[active_caches[k]] = last_op.before_pv[active_caches[k]]

\* Exactly gone has left the live map and the metadata, deleted at the provider.
RemovedExactly(gone) ==
    /\ DOMAIN active_caches = (DOMAIN last_op.before_ac) \ gone
    /\ DOMAIN cache_metadata = (DOMAIN last_op.before_md) \ gone
    /\ \A k \in gone : provider[last_op.before_ac[k]] = "deleted"
    /\ Untouched(gone)

\* Live entries recorded for business profile X when the trigger ran.
EntriesOfProfile(X) ==
    { k \in DOMAIN last_op.before_ac :
        /\ "business_profile_id" \in DOMAIN last_op.before_md[k]
        /\ last_op.before_md[k].business_profile_id = X }

\* C5 as stated: business_profile_update for X removes every live entry
\* recorded for X and leaves every other entry untouched.
C5_RemovesEveryProfileEntry ==
    TriggerDone("business_profile_update") =>
        RemovedExactly(EntriesOfProfile(last_op.context.business_profile_id))

\* C5: business_profile_update for X removes every live entry recorded for X
\* whose provider delete succeeds; an entry for X whose delete raises stays,
\* and every entry that stays keeps its handle, metadata and provider state.
C5_RemovesProfileEntriesDeleted ==
    TriggerDone("business_profile_update") =>
        RemovedExactly(EntriesOfProfile(last_op.context.business_profile_id)
                           \ last_op.failed)

\* A business_profile_update removed an entry of X and kept an entry of another profile.
C5_Witness ==
    /\ TriggerDone("business_profile_update")
    /\ EntriesOfProfile(last_op.context.business_profile_id) \ last_op.failed # {}
    /\ \E k \in DOMAIN active_caches :
          k \notin EntriesOfProfile(last_op.context.business_profile_id)

\* Live assessment entries recorded for framework F and profile B when the trigger ran.
AssessmentEntriesOf(F, B) ==
    { k \in DOMAIN last_op.before_ac :
        /\ last_op.before_md[k].type = ASSESSMENT_CONTEXT
        /\ last_op.before_md[k].framework_id = F
        /\ last_op.before_md[k].business_profile_id = B }

\* C6 as stated: assessment_completion for (F, B) removes exactly the live
\* assessment entries recorded for F and B; all other entries stay unchanged.
C6_RemovesExactlyAssessmentEntries ==
    TriggerDone("assessment_completion") =>
        RemovedExactly(AssessmentEntriesOf(last_op.context.framework_id,
                                           last_op.context.business_profile_id))

\* C6: assessment_completion for (F, B) removes exactly the live assessment
\* entries recorded for F and B whose provider delete succeeds; framework
\* entries for F, profile entries for B, assessment entries differing in
\* either id, and entries whose delete raises stay unchanged.
C6_RemovesAssessmentEntriesDeleted ==
    TriggerDone("assessment_completion") =>
        RemovedExactly(AssessmentEntriesOf(last_op.context.framework_id,
                                           last_op.context.business_profile_id)
                           \ last_op.failed)

\* An assessment_completion removed the (F, B) entry and kept an entry that
\* shares F or B with it.
C6_Witness ==
    /\ TriggerDone("assessment_completion")
    /\ AssessmentEntriesOf(last_op.context.framework_id,
                           last_op.context.business_profile_id) \ last_op.failed # {}
    /\ \E k \in DOMAIN active_caches :
          \/ MetadataGet(cache_metadata[k], "framework_id", None)
                 = last_op.context.framework_id
          \/ MetadataGet(cache_metadata[k], "business_profile_id", None)
                 = last_op.context.business_profile_id

\* Live entries built for the framework that regulation R names (GDPR is both
\* a framework id and a regulation) when the trigger ran.
EntriesOfRegulation(R) ==
    { k \in DOMAIN last_op.before_ac :
        MetadataGet(last_op.before_md[k], "framework_id", None) = R }

RegulatoryChangeRemovesNothing ==
    TriggerDone("regulatory_change") =>
        /\ last_op.failed = {}
        /\ RemovedExactly({})


(***************************************************************************)
(* Warming queue order and size.  queued_at tells the entries apart and    *)
(* orders them by arrival.                                                 *)
(***************************************************************************)
\* e comes before f in priority order: smaller priority number, or the same
\* priority and an earlier arrival.
Before(e, f) ==
    \/ e.priority < f.priority
    \/ e.priority = f.priority /\ e.queued_at < f.queued_at

QueueSorted(queue) ==
    \A i, j \in 1..Len(queue) : i < j => Before(queue[i], queue[j])

EnqueueDone ==
    /\ last_op.op = "enqueue"
    /\ config.cache_warming_enabled

\* C8: the warming queue is always in non-decreasing priority order with
\* equal priorities in arrival order, and an enqueue puts the new entry
\* immediately before the first older entry of strictly greater priority
\* (at the end when there is none).
C8_QueueOrdered ==
    /\ QueueSorted(cache_warming_queue)
    /\ (EnqueueDone /\ Len(last_op.before_queue) < WarmingQueueCap) =>
          \E i \in 1..Len(cache_warming_queue) :
              /\ cache_warming_queue[i].queued_at = last_op.queued_at
              /\ cache_warming_queue[i].priority = last_op.priority
              /\ \A j \in 1..(i - 1) :
                    cache_warming_queue[j].priority <= last_op.priority
              /\ i < Len(cache_warming_queue) =>
                    cache_warming_queue[i + 1].priority > last_op.priority
              /\ SubSeq(cache_warming_queue, 1, i - 1)
                     \o SubSeq(cache_warming_queue, i + 1, Len(cache_warming_queue))
                   = last_op.before_queue

\* Priorities 5, 1, 5, 3 enqueued in that order stand as 1, 3, 5 (first), 5 (second).
C8_Witness ==
    /\ EnqueueDone
    /\ Len(cache_warming_queue) = 4
    /\ [i \in 1..4 |-> cache_warming_queue[i].priority] = << 1, 3, 5, 5 >>
    /\ [i \in 1..4 |-> cache_warming_queue[i].queued_at] = << 1, 3, 0, 2 >>

\* The arrival stamps of the entries of a queue.
Stamps(queue) == { queue[i].queued_at : i \in 1..Len(queue) }

\* C9: the queue never holds more than 100 entries; an enqueue on a full
\* queue drops the entry that is last in priority order among the old
\* entries and the new one (possibly the new one), keeps all the others,
\* and the old entries kept stand in the order they had.
C9_QueueCapped ==
    /\ Len(cache_warming_queue) <= WarmingQueueCap
    /\ (EnqueueDone /\ Len(last_op.before_queue) = WarmingQueueCap) =>
          LET new == [ priority |-> last_op.priority, queued_at |-> last_op.queued_at ]
              old == { [ priority |-> last_op.before_queue[i].priority,
                         queued_at |-> last_op.before_queue[i].queued_at ] :
                           i \in 1..Len(last_op.before_queue) }
              dropped == CHOOSE d \in old \cup {new} :
                             \A c \in (old \cup {new}) \ {d} : Before(c, d)
              IsOld(e) == e.queued_at # last_op.queued_at
              IsKept(e) == e.queued_at # dropped.queued_at
          IN /\ Len(cache_warming_queue) = WarmingQueueCap
             /\ Stamps(cache_warming_queue)
                    = (Stamps(last_op.before_queue) \cup {new.queued_at})
                          \ {dropped.queued_at}
             /\ SelectSeq(cache_warming_queue, IsOld)
                    = SelectSeq(last_op.before_queue, IsKept)

\* An enqueue on a full queue took its place in the queue and pushed the
\* last old entry out.
C9_Witness ==
    /\ EnqueueDone
    /\ Len(last_op.before_queue) = WarmingQueueCap
    /\ last_op.queued_at \in Stamps(cache_warming_queue)
    /\ last_op.before_queue[WarmingQueueCap].queued_at \notin Stamps(cache_warming_queue)

(***************************************************************************)
(* cleanup_expired_caches.  When the run is done, cleanup holds the keys   *)
(* the scan found invalid, the live map the scan saw, and the count the    *)
(* call returns.                                                           *)
(***************************************************************************)
\* C10: cleanup removes exactly the entries the provider reported invalid,
\* leaves every valid entry in place, and returns the number of entries it
\* removed, also when a provider delete fails.
C10_CleanupRemovesInvalidAndCounts ==
    cleanup.pc = "done" =>
        /\ DOMAIN active_caches = (DOMAIN cleanup.before_ac) \ cleanup.scanned
        /\ \A k \in DOMAIN active_caches : active_caches[k] = cleanup.before_ac[k]
        /\ cleanup.cleaned_count
               = Cardinality((DOMAIN cleanup.before_ac) \ DOMAIN active_caches)


(***************************************************************************)
(* The performance recorder.  After record_cache_performance, last_op      *)
(* holds the key, the sample and the history the call started from.        *)
(***************************************************************************)
RecordDone ==
    /\ last_op.op = "record"
    /\ config.performance_based_ttl

\* Sum of the response times of samples lo..hi of a history.
RECURSIVE ResponseSum(_, _, _)
ResponseSum(h, lo, hi) ==
    IF lo > hi THEN 0 ELSE h[lo].response_time_ms + ResponseSum(h, lo + 1, hi)

\* The adjustment for a history, in percent: 0 below 3 samples, otherwise by
\* the mean of the last 10 samples against the two thresholds (200, 2000 ms).
ExpectedAdjustment(h) ==
    LET n == IF Len(h) < 10 THEN Len(h) ELSE 10
        total == ResponseSum(h, Len(h) - n + 1, Len(h))
    IN IF Len(h) < 3 THEN 0
       ELSE IF total < 200 * n THEN 20
       ELSE IF total > 2000 * n THEN -20
       ELSE 0

\* C11: the adjustment emitted for a key (recorded with the newest sample)
\* is 0 with fewer than 3 samples; otherwise +factor when the mean response
\* time of the last 10 samples is below the fast threshold, -factor when it
\* is above the slow threshold, and 0 in between.
C11_AdjustmentByRecentMean ==
    RecordDone =>
        LET h == performance_history[last_op.cache_key]
        IN h[Len(h)].ttl_adjustment = ExpectedAdjustment(h)

\* Slow samples recorded after a long run of fast ones: the last 10 decide,
\* not the whole history (5 slow and 5 fast in the window give 0).
C11_Witness ==
    /\ RecordDone
    /\ LET h == performance_history[last_op.cache_key]
       IN /\ Len(h) = PerformanceHistoryCap
          /\ \A i \in (Len(h) - 4)..Len(h) : h[i].response_time_ms = 3000
          /\ h[Len(h)].ttl_adjustment = 0

\* C12: every history holds at most 50 samples in recording order, and a
\* call leaves the key with the samples it had plus the new one, less the
\* oldest on overflow; the histories of the other keys are as they were.
C12_HistoryKeepsMostRecent ==
    /\ \A k \in DOMAIN performance_history :
          LET h == performance_history[k]
          IN /\ Len(h) <= 50
             /\ \A i \in 1..(Len(h) - 1) : h[i].timestamp < h[i + 1].timestamp
    /\ RecordDone =>
          LET b == IF last_op.cache_key \in DOMAIN last_op.before_ph
                   THEN last_op.before_ph[last_op.cache_key] ELSE << >>
              h == performance_history[last_op.cache_key]
              d == Len(b) + 1 - Len(h)      \* samples evicted
          IN /\ Len(h) = (IF Len(b) + 1 > 50 THEN 50 ELSE Len(b) + 1)
             /\ h[Len(h)].timestamp = last_op.timestamp
             /\ h[Len(h)].response_time_ms = last_op.response_time_ms
             /\ h[Len(h)].hit = last_op.hit
             /\ \A i \in 1..(Len(h) - 1) : h[i] = b[i + d]
             /\ \A k \in DOMAIN last_op.before_ph :
                   k # last_op.cache_key =>
                       /\ k \in DOMAIN performance_history
                       /\ performance_history[k] = last_op.before_ph[k]

\* A call on a full history: the oldest sample has gone and the newest is last.
C12_Witness ==
    /\ RecordDone
    /\ last_op.cache_key \in DOMAIN last_op.before_ph
    /\ Len(last_op.before_ph[last_op.cache_key]) = 50
    /\ Len(performance_history[last_op.cache_key]) = 50
    /\ performance_history[last_op.cache_key][1].timestamp
           > last_op.before_ph[last_op.cache_key][1].timestamp


(***************************************************************************)
(* Create calls run to their return.  After create_*_cache, last_op holds  *)
(* the call, the provider's answers, the value returned and the maps,      *)
(* metrics and provider states the call started from.                      *)
(***************************************************************************)
CreateDone == last_op.op = "create"

\* The call found an entry under its key whose handle the provider reports valid.
FoundValid ==
    /\ last_op.call.cache_key \in DOMAIN last_op.before_ac
    /\ last_op.before_pv[last_op.before_ac[last_op.call.cache_key]] = "valid"

\* C13: a create call that finds a live entry with a valid handle returns
\* that handle, adds exactly one to the hit counter, makes no provider call
\* (no handle created, none deleted) and leaves the live map, the metadata
\* and the other counters as they were.
C13_HitReturnsStoredHandle ==
    (CreateDone /\ FoundValid) =>
        /\ last_op.result = last_op.before_ac[last_op.call.cache_key]
        /\ metrics = [last_op.before_mt EXCEPT !.cache_hits = @ + 1]
        /\ active_caches = last_op.before_ac
        /\ cache_metadata = last_op.before_md
        /\ provider = last_op.before_pv

\* A hit on one of two live entries, after an earlier miss and create.
C13_Witness ==
    /\ CreateDone
    /\ FoundValid
    /\ last_op.result = last_op.before_ac[last_op.call.cache_key]
    /\ metrics.cache_hits = 1
    /\ metrics.cache_creates >= 1

\* The call found no usable entry and the provider's create answered.
BuiltNew ==
    /\ CreateDone
    /\ ~FoundValid
    /\ last_op.create_ok
    /\ Len(last_op.before_pv) < MaxHandles

\* What a successful build leaves behind, counters aside: one new handle,
\* stored under the call's key with the metadata of the call; the entries
\* of the other keys as they were.
StoresOneNewEntry ==
    LET k == last_op.call.cache_key
    IN /\ Len(provider) = Len(last_op.before_pv) + 1
       /\ last_op.result = Len(provider)
       /\ provider[last_op.result] = "valid"
       /\ k \in DOMAIN active_caches
       /\ active_caches[k] = last_op.result
       /\ cache_metadata[k].type = last_op.call.content_type
       /\ cache_metadata[k].ttl_hours = TTLHoursOf(config, last_op.call)
       /\ last_op.call.content_type # FRAMEWORK_CONTEXT =>
             cache_metadata[k].business_profile_id = last_op.call.business_profile.id
       /\ last_op.call.content_type # BUSINESS_PROFILE =>
             cache_metadata[k].framework_id = last_op.call.framework_id
       /\ \A j \in (DOMAIN last_op.before_ac) \ {k} :
             /\ j \in DOMAIN active_caches
             /\ active_caches[j] = last_op.before_ac[j]
             /\ cache_metadata[j] = last_op.before_md[j]
       /\ DOMAIN active_caches = (DOMAIN last_op.before_ac) \cup {k}
       /\ DOMAIN cache_metadata = (DOMAIN last_op.before_md) \cup {k}

\* C14: a create call that finds no usable entry and whose build and
\* provider create succeed stores exactly one new entry under the derived
\* key, with the computed TTL and the identifiers of the call, and adds one
\* to the miss counter and one to the create counter.
C14_MissStoresAndCounts ==
    BuiltNew =>
        /\ StoresOneNewEntry
        /\ metrics.cache_creates = last_op.before_mt.cache_creates + 1
        /\ metrics.cache_misses = last_op.before_mt.cache_misses + 1

\* What the code does on that path: the entry is stored and the create
\* counter goes up, the miss counter stays.
MissStoresAndCountsCreateOnly ==
    BuiltNew =>
        /\ StoresOneNewEntry
        /\ metrics.cache_creates = last_op.before_mt.cache_creates + 1
        /\ metrics.cache_misses = last_op.before_mt.cache_misses
        /\ metrics.cache_hits = last_op.before_mt.cache_hits

\* C15: a key of the live map never goes from one handle to another in one
\* step: a stale entry is removed (the key is absent) and its handle
\* deleted before the replacement is built and stored.
C15_StaleEntryRemovedBeforeRebuild ==
    [][ \A k \in DOMAIN active_caches :
            k \in DOMAIN active_caches' => active_caches'[k] = active_caches[k] ]_vars

\* The provider's create was called and failed.
CreateFailed ==
    /\ CreateDone
    /\ ~FoundValid
    /\ ~last_op.create_ok

\* C16: when the provider's create fails, the call returns None (a handle
\* is returned only when one was created and stored), the provider is not
\* asked again (no handle comes into being, the create counter stays, one
\* miss is counted), and no entry or metadata record is registered for the
\* key: what is under the key afterwards, if anything, was there before.
C16_CreateFailureReported ==
    /\ CreateFailed =>
          LET k == last_op.call.cache_key
          IN /\ last_op.result = NoHandle
             /\ Len(provider) = Len(last_op.before_pv)
             /\ metrics.cache_creates = last_op.before_mt.cache_creates
             /\ metrics.cache_misses = last_op.before_mt.cache_misses + 1
             /\ k \in DOMAIN active_caches =>
                   /\ k \in DOMAIN last_op.before_ac
                   /\ active_caches[k] = last_op.before_ac[k]
             /\ k \in DOMAIN cache_metadata =>
                   /\ k \in DOMAIN last_op.before_md
                   /\ cache_metadata[k] = last_op.before_md[k]
    /\ (CreateDone /\ last_op.result # NoHandle) =>
          /\ last_op.result \in 1..Len(provider)
          /\ active_caches[last_op.call.cache_key] = last_op.result

\* A create failed while another entry was live: None came back and the key
\* has no entry.
C16_Witness ==
    /\ CreateFailed
    /\ last_op.result = NoHandle
    /\ last_op.call.cache_key \notin DOMAIN active_caches
    /\ active_caches # EmptyMap

(***************************************************************************)
(* refresh_cache.  After the call, last_op holds the key, the value        *)
(* returned and the state the call started from.                           *)
(***************************************************************************)
RefreshDone == last_op.op = "refresh"

\* C17: refresh of a key with no metadata record returns False and changes
\* nothing: live map, metadata, warming queue, provider and every counter
\* (the refresh counter too) are as before.
C17_RefreshUnknownKeyIsNoOp ==
    (RefreshDone /\ last_op.cache_key \notin DOMAIN last_op.before_md) =>
        /\ last_op.ret = FALSE
        /\ active_caches = last_op.before_ac
        /\ cache_metadata = last_op.before_md
        /\ metrics = last_op.before_mt
        /\ provider = last_op.before_pv
        /\ cache_warming_queue = last_op.before_queue

\* A refresh of an unknown key on a manager that holds other entries.
C17_Witness ==
    /\ RefreshDone
    /\ last_op.cache_key \notin DOMAIN last_op.before_md
    /\ last_op.ret = FALSE
    /\ cache_metadata # EmptyMap

\* C18: refresh of a key with a metadata record re-creates the handle (the
\* handle in the live map afterwards is a newly created one), keeps the
\* key, the content type and the identifiers of the entry, and adds one to
\* the refresh counter.
C18_RefreshRecreatesHandle ==
    (RefreshDone /\ last_op.cache_key \in DOMAIN last_op.before_md /\ last_op.ret) =>
        LET k == last_op.cache_key
        IN /\ k \in DOMAIN active_caches
           /\ active_caches[k] \notin 1..Len(last_op.before_pv)
           /\ provider[active_caches[k]] = "valid"
           /\ cache_metadata[k].type = last_op.before_md[k].type
           /\ metrics.cache_refreshes = last_op.before_mt.cache_refreshes + 1

\* What the code does for a known key: the refresh counter goes up, True is
\* returned, and the handle, the metadata and the provider are as before.
RefreshOnlyCounts ==
    (RefreshDone /\ last_op.cache_key \in DOMAIN last_op.before_md) =>
        /\ last_op.ret = TRUE
        /\ active_caches = last_op.before_ac
        /\ cache_metadata = last_op.before_md
        /\ provider = last_op.before_pv
        /\ metrics = [last_op.before_mt EXCEPT !.cache_refreshes = @ + 1]

(***************************************************************************)
(* Invalidation with the flag off, and batches with failing deletes.       *)
(***************************************************************************)
\* C19: with intelligent_invalidation off, a trigger of any type leaves the
\* live map, the metadata, the trigger log and all counters as they were
\* and deletes nothing at the provider.
C19_DisabledTriggerIsNoOp ==
    (last_op.op = "trigger" /\ ~config.intelligent_invalidation) =>
        /\ active_caches = last_op.before_ac
        /\ cache_metadata = last_op.before_md
        /\ metrics = last_op.before_mt
        /\ provider = last_op.before_pv
        /\ invalidation_triggers = last_op.before_log

\* With the flag off, a trigger came for a profile that has a live entry.
C19_Witness ==
    /\ last_op.op = "trigger"
    /\ ~config.intelligent_invalidation
    /\ last_op.trigger_type = "business_profile_update"
    /\ \E k \in DOMAIN active_caches :
          /\ "business_profile_id" \in DOMAIN cache_metadata[k]
          /\ cache_metadata[k].business_profile_id
                 = last_op.context.business_profile_id

\* Live entries recorded for framework F when the trigger ran.
EntriesOfFramework(F) ==
    { k \in DOMAIN last_op.before_ac :
        /\ "framework_id" \in DOMAIN last_op.before_md[k]
        /\ last_op.before_md[k].framework_id = F }

\* The entries the trigger that has run was to delete.
Matching ==
    CASE last_op.trigger_type = "business_profile_update" ->
             EntriesOfProfile(last_op.context.business_profile_id)
      [] last_op.trigger_type = "framework_update" ->
             EntriesOfFramework(last_op.context.framework_id)
      [] last_op.trigger_type = "assessment_completion" ->
             AssessmentEntriesOf(last_op.context.framework_id,
                                 last_op.context.business_profile_id)
      [] OTHER -> {}

\* C20: in an invalidation batch a failing provider delete stops nothing:
\* the handler returns, every matching entry whose delete succeeds is gone
\* from the live map and from the metadata, and every entry whose delete
\* failed is still in both with its handle.
C20_DeleteFailureKeepsBatchGoing ==
    (last_op.op = "trigger" /\ config.intelligent_invalidation) =>
        /\ last_op.failed \subseteq Matching
        /\ \A k \in Matching \ last_op.failed :
              /\ k \notin DOMAIN active_caches
              /\ k \notin DOMAIN cache_metadata
        /\ \A k \in last_op.failed :
              /\ k \in DOMAIN active_caches
              /\ k \in DOMAIN cache_metadata
              /\ active_caches[k] = last_op.before_ac[k]
              /\ cache_metadata[k] = last_op.before_md[k]
              /\ provider[active_caches[k]] = last_op.before_pv[active_caches[k]]

\* A batch of two matching entries: one delete failed, the other entry is gone.
C20_Witness ==
    /\ last_op.op = "trigger"
    /\ config.intelligent_invalidation
    /\ last_op.failed # {}
    /\ Matching \ last_op.failed # {}
    /\ \A k \in Matching \ last_op.failed : k \notin DOMAIN active_caches


(***************************************************************************)
(* process_warming_queue.  After each step of the walk last_op holds the   *)
(* entry looked at and the state the step started from; when the batch is  *)
(* done, warm holds the entries walked, the indices collected for removal, *)
(* the count returned and the count of entries built.                      *)
(***************************************************************************)
WarmDone == last_op.op = "warm"

\* The entry names one of the three contents a create call exists for, with
\* the context that call needs.
HasBuildPath(entry) ==
    /\ entry.content_type \in { ASSESSMENT_CONTEXT, BUSINESS_PROFILE, FRAMEWORK_CONTEXT }
    /\ ~WarmRaises(entry)

\* The key the create call derives for the entry's content.
CreateKeyOf(entry) == WarmCall(entry).cache_key

\* At least 3 samples under the key, more than 30% of the last 10 being hits.
UsedOften(cache_key) ==
    LET h == HistoryOf(performance_history, cache_key)
        recent == Last(h, RecentWindow)
    IN /\ Len(h) >= MinSamples
       /\ 10 * Cardinality({ i \in 1..Len(recent) : recent[i].hit }) > 3 * Len(recent)

\* The step called a create method and that call got as far as the builder.
BuildAttempted ==
    /\ last_op.called
    /\ ~IsHit([ac |-> last_op.before_ac, pv |-> last_op.before_pv],
              WarmCall(last_op.entry))

\* C21: a step of the batch builds for its entry if and only if no entry is
\* live under the key the create call derives for the entry's content and
\* the entry has priority <= 2 or that key has been used often; an entry
\* whose key is live is collected for removal and not built.
C21_WarmsIffAbsentAndWanted ==
    (WarmDone /\ HasBuildPath(last_op.entry)) =>
        LET k == CreateKeyOf(last_op.entry)
        IN /\ BuildAttempted <=>
                 /\ k \notin DOMAIN last_op.before_ac
                 /\ \/ last_op.entry.priority <= HighPriority
                    \/ UsedOften(k)
           /\ k \in DOMAIN last_op.before_ac =>
                 /\ ~BuildAttempted
                 /\ warm.items_to_remove # << >>
                 /\ warm.items_to_remove[Len(warm.items_to_remove)] = warm.i - 1

\* What the code does: the decision is taken on the key built from the
\* context's framework_id and business_profile_id, whatever the content
\* type, and the create call is made when that decision is to warm.
WarmsByContextIdKey ==
    (WarmDone /\ HasBuildPath(last_op.entry)) =>
        (last_op.called <=>
            ShouldWarmCache(last_op.entry, last_op.before_ac, performance_history))


\* The step went to the builder and no handle came of it.
BuildFailed ==
    /\ WarmDone
    /\ BuildAttempted
    /\ Len(provider) = Len(last_op.before_pv)

\* The entry of the step just taken, as the queue holds it now.
QueuedNow(entry) ==
    { i \in 1..Len(cache_warming_queue) :
          cache_warming_queue[i].queued_at = entry.queued_at }

\* The step just taken collected its entry for removal.
CollectedForRemoval ==
    /\ warm.items_to_remove # << >>
    /\ warm.items_to_remove[Len(warm.items_to_remove)] = warm.i - 1

\* C22: a failed build adds one to the entry's attempts and keeps the entry
\* in the queue until its third failure; no entry is tried after three
\* failures, and when the batch has returned no queued entry has three.
C22_FailedBuildCountsAttempt ==
    /\ BuildFailed =>
          /\ \A i \in QueuedNow(last_op.entry) :
                cache_warming_queue[i].attempts = last_op.entry.attempts + 1
          /\ CollectedForRemoval <=> last_op.entry.attempts + 1 >= MaxAttempts
    /\ WarmDone => last_op.entry.attempts < MaxAttempts
    /\ warm.pc = "done" =>
          \A i \in 1..Len(cache_warming_queue) :
              cache_warming_queue[i].attempts < MaxAttempts

\* What the code does: an attempt is counted only when the step raises,
\* which a failed build does not (the create method returns None); the
\* entry of a failed build is counted as processed and collected for
\* removal with its attempts as they were.
FailedBuildCountsAsProcessed ==
    /\ BuildFailed =>
          /\ \A i \in QueuedNow(last_op.entry) :
                cache_warming_queue[i].attempts = last_op.entry.attempts
          /\ CollectedForRemoval
          /\ ~last_op.raised
    /\ (WarmDone /\ last_op.raised) =>
          /\ \A i \in QueuedNow(last_op.entry) :
                cache_warming_queue[i].attempts = last_op.entry.attempts + 1
          /\ CollectedForRemoval <=> last_op.entry.attempts + 1 >= MaxAttempts
    /\ WarmDone => last_op.entry.attempts < MaxAttempts
    /\ warm.pc = "done" =>
          \A i \in 1..Len(cache_warming_queue) :
              cache_warming_queue[i].attempts < MaxAttempts

\* The batch walked the queue and has returned.
BatchDone ==
    /\ warm.pc = "done"
    /\ "batch" \in DOMAIN warm

\* C23: the value process_warming_queue returns is the number of entries
\* for which the batch built and stored a new cache entry.
C23_ReturnsCountOfBuilt ==
    BatchDone => warm.ret = warm.built

\* What the code returns: the number of entries for which the warm step ran
\* to its end without raising, whether or not anything was built.
ReturnsCountOfStepsNotRaised ==
    /\ BatchDone => (warm.ret = warm.processed /\ warm.ret >= warm.built)
    /\ (WarmDone /\ ~last_op.raised
          /\ ShouldWarmCache(last_op.entry, last_op.before_ac, performance_history)) =>
          warm.processed >= 1


(***************************************************************************)
(* The recorder and the TTL of later creations.                            *)
(***************************************************************************)
\* The TTL of a creation as the lifecycle configuration and the arguments
\* of the call give it; no recorded sample enters.
TTLByArguments(c) ==
    CASE c.content_type = ASSESSMENT_CONTEXT ->
            CalculateAssessmentTTL(config, c.framework_id, c.business_profile)
      [] c.content_type = BUSINESS_PROFILE ->
            CalculateBusinessProfileTTL(config, c.business_profile)
      [] c.content_type = FRAMEWORK_CONTEXT -> 12

\* A create call stored a new entry.
Stored ==
    /\ CreateDone
    /\ last_op.result # NoHandle
    /\ last_op.result \notin 1..Len(last_op.before_pv)

C25_LiveAndMetadataKeysAgree ==
    DOMAIN active_caches = DOMAIN cache_metadata

\* An invalidation whose provider delete failed, on a manager that has also
\* seen a build fail: the entry is still in both maps.
C25_Witness ==
    /\ last_op.op = "trigger"
    /\ last_op.failed # {}
    /\ metrics.cache_misses >= 1
    /\ last_op.failed \subseteq DOMAIN active_caches
    /\ last_op.failed \subseteq DOMAIN cache_metadata

\* Sum of the size estimates recorded for a set of keys.
RECURSIVE SizeOf(_)
SizeOf(keys) ==
    IF keys = {} THEN 0
    ELSE LET k == CHOOSE x \in keys : TRUE
         IN cache_metadata[k].size_estimate_mb + SizeOf(keys \ {k})

\* C26: the total-cached-size metric is the sum of the size estimates of
\* the entries in the live map.
C26_SizeMetricIsSumOfLiveSizes ==
    metrics.total_size_cached_mb = SizeOf(DOMAIN active_caches)

\* What the code keeps: the metric never falls below that sum (creation
\* adds the estimate; of the removing paths only _remove_cache subtracts).
SizeMetricAtLeastSumOfLiveSizes ==
    metrics.total_size_cached_mb >= SizeOf(DOMAIN active_caches)


(***************************************************************************)
(* The queue under repeated batches.                                       *)
(***************************************************************************)
\* With warming enabled and no further enqueue, batches run again and again
\* leave the warming queue empty for good.
QueueEventuallyEmpty ==
    <>[](cache_warming_queue = << >>)

\* The step just taken stored a new cache entry for its entry.
BuiltForEntry ==
    /\ last_op.called
    /\ Len(provider) > Len(last_op.before_pv)

\* The step just taken decided not to warm its entry.
SkippedEntry ==
    ~ShouldWarmCache(last_op.entry, last_op.before_ac, performance_history)

\* The step just taken was the entry's third failure.
ThirdFailure ==
    /\ last_op.raised
    /\ last_op.entry.attempts + 1 = MaxAttempts

\* C27: with warming enabled and no further enqueue, batches run again and
\* again empty the warming queue, whatever the builder and the provider do,
\* and an entry leaves the queue only built, skipped, or dropped at its
\* third failure.
C27_QueueEmptiesByBuildSkipOrThirdFailure ==
    /\ QueueEventuallyEmpty
    /\ []((WarmDone /\ CollectedForRemoval) =>
            (BuiltForEntry \/ SkippedEntry \/ ThirdFailure))

\* What the code does: an entry is collected for removal by every step that
\* does not raise, and by the raising step that is its third failure.
LeavesUnlessRaisedBelowThree ==
    (WarmDone /\ CollectedForRemoval) <=>
        (WarmDone /\ (~last_op.raised \/ ThirdFailure))


(***************************************************************************)
(* A batch and the enqueues that run between its steps.                    *)
(***************************************************************************)
\* The batch has just popped the indices it collected.
RemovalDone == last_op.op = "warm_remove"

\* The entries the batch examined and collected for removal, by their stamps.
CollectedStamps ==
    { warm.batch[warm.items_to_remove[j] + 1].queued_at :
          j \in 1..Len(warm.items_to_remove) }

\* An enqueue ran between the examination and the removal.
EnqueuedMeanwhile ==
    Stamps(last_op.before_queue) \ Stamps(warm.batch) # {}

\* C28: the removal step of a batch takes out of the queue exactly the
\* entries the batch examined and collected for removal, also when entries
\* were enqueued while the batch ran: none of those leaves unexamined, and
\* no collected entry stays.
C28_RemovesExactlyCollected ==
    RemovalDone =>
        Stamps(cache_warming_queue) = Stamps(last_op.before_queue) \ CollectedStamps

\* What the code does: it pops, from the queue as it is now, the positions
\* the collected entries had when the batch began.
PopsByOldPosition ==
    RemovalDone =>
        /\ cache_warming_queue = PopReversed(last_op.before_queue, warm.items_to_remove)
        /\ (~EnqueuedMeanwhile =>
              Stamps(cache_warming_queue) = Stamps(last_op.before_queue) \ CollectedStamps)


(***************************************************************************)
(* The cleanup and the create calls that run between its removals.         *)
(***************************************************************************)
\* The step is one removal of the cleanup's loop.
CleanupRemoves ==
    /\ cleanup.pc = "remove"
    /\ cleanup'.pc = "remove"
    /\ cleanup'.cleaned_count = cleanup.cleaned_count + 1

\* The entry under the key and its handle at the provider are as they were.
EntryKept(k) ==
    /\ k \in DOMAIN active_caches'
    /\ active_caches'[k] = active_caches[k]
    /\ provider'[active_caches[k]] = provider[active_caches[k]]

\* C29: no removal of the cleanup takes a live entry whose handle the
\* provider reports valid, nor deletes that handle, also when a create call
\* has replaced the entry since the cleanup collected its key.
C29_CleanupSparesValidEntries ==
    [][CleanupRemoves =>
          \A k \in DOMAIN active_caches :
              IsCacheValid(provider, active_caches[k]) => EntryKept(k)]_vars

\* What the code does: each removal acts on a key collected by the scan,
\* whatever is live under it by then, and on no other key.
CleanupRemovesCollectedKeys ==
    [][CleanupRemoves =>
          \A k \in DOMAIN active_caches :
              k \notin cleanup.expired_keys => EntryKept(k)]_vars


(***************************************************************************)
(* A profile update and the next request for that profile's content.       *)
(***************************************************************************)
\* The step is a business-profile create call for the profile whose update
\* has just been handled with every provider delete succeeding.
CreateAfterProfileUpdate ==
    /\ TriggerDone("business_profile_update")
    /\ last_op.failed = {}
    /\ last_op'.op = "create"
    /\ last_op'.call.content_type = BUSINESS_PROFILE
    /\ last_op'.call.business_profile.id
           = MetadataGet(last_op.context, "business_profile_id", None)

\* The create call of the step returned a handle that existed before it.
ReturnsOldHandle ==
    last_op'.result \in 1..Len(provider)

\* C30: after business_profile_update for X with all deletes succeeding,
\* the next business-profile create call for X does not return an entry
\* created before the trigger, also when the entry live under X's
\* similarity key was created for another profile with the same tuple.
C30_UpdateForcesRebuild ==
    [][CreateAfterProfileUpdate => ~ReturnsOldHandle]_vars

\* What the code does: the trigger removes the entries whose metadata names
\* X, so the call returns an old handle exactly when the entry live under
\* the similarity key was stored by a call for another profile and the
\* provider still reports it valid.
UpdateSparesEntriesOfOtherProfiles ==
    [][CreateAfterProfileUpdate =>
          (ReturnsOldHandle <=>
              LET k == last_op'.call.cache_key
              IN /\ k \in DOMAIN active_caches
                 /\ cache_metadata[k].business_profile_id
                        # last_op'.call.business_profile.id
                 /\ IsCacheValid(provider, active_caches[k]))]_vars

====
